---- MODULE Spec2Model ----
(***************************************************************************)
(* Model of the fend-sentry log parsing and error-aggregation engine       *)
(* (src/parser.py): LogEntry, ErrorGroup and LogParser.                    *)
(*                                                                         *)
(* Text is modelled at token granularity.  A line is a sequence of tokens; *)
(* a token is a maximal piece of text that the regular expressions of the  *)
(* parser never split: a word, a date, a clock reading, a run of blanks, a *)
(* punctuation character, or a phrase without any character the parser     *)
(* looks for.  The character classes of the regular expressions become     *)
(* sets of tokens, and matching goes token by token.  Strings are joined   *)
(* with the string concatenation \o, so a signature string is the string   *)
(* the code builds.                                                        *)
(*                                                                         *)
(* An optional value (Optional[...] / None) is a sequence of length 0 or 1.*)
(***************************************************************************)
EXTENDS Integers, Sequences, FiniteSets, TLC

None == <<>>

Some(x) == <<x>>

(***************************************************************************)
(* Tokens and the character classes of the parser's regular expressions.   *)
(***************************************************************************)

\* runs of blanks: one, two and four spaces
SpaceTokens == {" ", "  ", "    "}

SpaceWidth(tok) == CASE tok = " " -> 1 [] tok = "  " -> 2 [] tok = "    " -> 4 [] OTHER -> 0

\* %Y-%m-%d dates and %d/%b/%Y dates
IsoDateTokens == {"2024-06-30"}

SlashDateTokens == {"30/Jun/2024"}

\* %H:%M:%S,%f  /  %H:%M:%S.%f  /  %H:%M:%S clock readings
ClockCommaTokens == {"16:20:01,123", "16:21:15,456", "16:21:20,789", "16:24:01,555"}

ClockDotTokens == {"16:20:01.123"}

ClockPlainTokens == {"15:30:00", "16:20:01", "16:22:00", "16:24:01"}

\* %z offsets
OffsetTokens == {"+0000"}

\* tokens made of digits only
NumberTokens == {"42", "43", "200", "15"}

\* \w+ : tokens made of word characters only
WordTokens ==
    {"ERROR", "error", "WARNING", "INFO", "CRITICAL", "FATAL", "myapp", "django",
     "Internal", "Server", "Error", "ConnectionError", "ValueError",
     "Exception", "GET", "File", "HTTP", "worker", "garbage"} \cup NumberTokens

\* [0-9-]+ : digits and hyphens only
DateLikeTokens == IsoDateTokens \cup NumberTokens \cup {"-"}

\* [0-9:,]+ and [0-9:,\.]+
ClockLikeTokens == ClockCommaTokens \cup ClockPlainTokens \cup NumberTokens \cup {":", ","}

ClockLikeDotTokens == ClockLikeTokens \cup ClockDotTokens

\* tokens that contain the character - , : , ] or "
HyphenTokens == {"-", "my-app"} \cup IsoDateTokens

ColonTokens ==
    {":", "Traceback (most recent call last):"} \cup ClockCommaTokens
        \cup ClockDotTokens \cup ClockPlainTokens

BracketTokens == {"]"}

QuoteTokens == {"\""}

\* tokens that begin with / (a path), and those that contain /site-packages/
PathTokens ==
    {"/app/payments/views.py", "/app/models.py", "/health/", "/api/payments/",
     "/usr/lib/python3/site-packages/django/core/handlers/base.py"}

SitePackagesTokens == {"/usr/lib/python3/site-packages/django/core/handlers/base.py"}

\* [A-Z]+ and \d{3}
UpperAlphaTokens == {"ERROR", "WARNING", "INFO", "CRITICAL", "FATAL", "GET", "HTTP"}

ThreeDigitTokens == {"200"}

\* str.upper(), token by token
UpperToken(tok) ==
    CASE tok = "error" -> "ERROR"
      [] tok = "myapp" -> "MYAPP"
      [] tok = "my-app" -> "MY-APP"
      [] tok = "django" -> "DJANGO"
      [] tok = "worker" -> "WORKER"
      [] tok = "garbage" -> "GARBAGE"
      [] OTHER -> tok

\* str.upper() of a level that is already a joined string
UpperStr(s) == UpperToken(s)

IsSpace(tok) == tok \in SpaceTokens

(***************************************************************************)
(* Text helpers: str.rstrip, str.strip, joining tokens into a string.      *)
(***************************************************************************)

RECURSIVE RStrip(_)
RStrip(text) ==
    IF text = <<>> THEN <<>>
    ELSE IF IsSpace(text[Len(text)]) THEN RStrip(SubSeq(text, 1, Len(text) - 1))
    ELSE text

RECURSIVE LStrip(_)
LStrip(text) ==
    IF text = <<>> THEN <<>>
    ELSE IF IsSpace(text[1]) THEN LStrip(Tail(text))
    ELSE text

Strip(text) == LStrip(RStrip(text))

RECURSIVE JoinTokens(_)
JoinTokens(text) ==
    IF text = <<>> THEN "" ELSE text[1] \o JoinTokens(Tail(text))

UpperText(text) == [i \in 1..Len(text) |-> UpperToken(text[i])]

\* index of the first token at or after i that is no blank (Len+1 if none)
RECURSIVE SkipSpaces(_, _)
SkipSpaces(text, i) ==
    IF i <= Len(text) /\ IsSpace(text[i]) THEN SkipSpaces(text, i + 1) ELSE i

\* index of the first token at or after i that lies in toks (0 if none)
RECURSIVE FirstIn(_, _, _)
FirstIn(text, i, toks) ==
    IF i > Len(text) THEN 0
    ELSE IF text[i] \in toks THEN i
    ELSE FirstIn(text, i + 1, toks)

(***************************************************************************)
(* datetime values.  A datetime is [ms, aware, off]: the wall-clock        *)
(* reading in milliseconds since 2024-06-30 00:00, whether it carries a    *)
(* tzinfo, and the UTC offset in minutes of that tzinfo.                   *)
(***************************************************************************)

Clock(h, m, s, ms) == ((h * 60 + m) * 60 + s) * 1000 + ms

\* timedelta arithmetic in milliseconds
SecondsMs(sec) == sec * 1000

DaysMs(days) == days * 24 * SecondsMs(3600)

Naive(ms) == [ms |-> ms, aware |-> FALSE, off |-> 0]

Aware(ms, off) == [ms |-> ms, aware |-> TRUE, off |-> off]

\* the day a date token names, counted from 2024-06-30
DayOf(tok) == CASE tok = "2024-06-30" -> 0 [] tok = "30/Jun/2024" -> 0 [] OTHER -> 0

\* the reading of a clock token (%H:%M:%S with or without %f)
ClockOf(tok) ==
    CASE tok = "16:20:01,123" -> Clock(16, 20, 1, 123)
      [] tok = "16:20:01.123" -> Clock(16, 20, 1, 123)
      [] tok = "16:21:15,456" -> Clock(16, 21, 15, 456)
      [] tok = "16:21:20,789" -> Clock(16, 21, 20, 789)
      [] tok = "16:24:01,555" -> Clock(16, 24, 1, 555)
      [] tok = "15:30:00" -> Clock(15, 30, 0, 0)
      [] tok = "16:20:01" -> Clock(16, 20, 1, 0)
      [] tok = "16:22:00" -> Clock(16, 22, 0, 0)
      [] tok = "16:24:01" -> Clock(16, 24, 1, 0)
      [] OTHER -> 0

\* the UTC offset, in minutes, of a %z token
OffsetOf(tok) == CASE tok = "+0000" -> 0 [] OTHER -> 0

WallMs(d, c) == DaysMs(DayOf(d)) + ClockOf(c)

\* datetime.strptime(text, TIMESTAMP_PATTERNS[k]); None stands for ValueError.
\* A blank in a format matches any run of blanks.
StrpTime(text, k) ==
    LET dateClock(dates, clocks) ==
            IF /\ Len(text) = 3
               /\ text[1] \in dates
               /\ IsSpace(text[2])
               /\ text[3] \in clocks
            THEN Some(Naive(WallMs(text[1], text[3])))
            ELSE None
    IN  CASE k = 1 -> dateClock(IsoDateTokens, ClockCommaTokens)
          [] k = 2 -> dateClock(IsoDateTokens, ClockDotTokens)
          [] k = 3 -> dateClock(IsoDateTokens, ClockPlainTokens)
          [] k = 4 -> dateClock(SlashDateTokens, ClockPlainTokens)
          [] k = 5 ->
                IF /\ Len(text) = 5
                   /\ text[1] \in SlashDateTokens
                   /\ text[2] = ":"
                   /\ text[3] \in ClockPlainTokens
                   /\ IsSpace(text[4])
                   /\ text[5] \in OffsetTokens
                THEN Some(Aware(WallMs(text[1], text[3]), OffsetOf(text[5])))
                ELSE None

NumTimestampPatterns == 5

\* the loop over TIMESTAMP_PATTERNS: the first format that parses wins
RECURSIVE TryFormats(_, _)
FirstParsed(parsed, text, k) == IF parsed # None THEN parsed ELSE TryFormats(text, k + 1)

TryFormats(text, k) ==
    IF k > NumTimestampPatterns THEN None
    ELSE FirstParsed(StrpTime(text, k), text, k)

\* tokens whose last character is in [0-9-], tokens whose first is in [0-9:,\.]
EndsDateLike(tok) ==
    tok \in DateLikeTokens \cup SlashDateTokens \cup ClockLikeDotTokens \cup OffsetTokens

StartsClockLike(tok) ==
    tok \in ClockLikeDotTokens \cup IsoDateTokens \cup SlashDateTokens

\* re.search(r'([0-9-]+\s+[0-9:,\.]+)', text): the position of the leftmost match
RECURSIVE SearchDateTime(_, _)
SearchDateTime(text, i) ==
    IF i + 2 > Len(text) THEN 0
    ELSE IF /\ EndsDateLike(text[i])
            /\ IsSpace(text[i + 1])
            /\ StartsClockLike(text[i + 2])
         THEN i
         ELSE SearchDateTime(text, i + 1)

\* the second attempt of _parse_timestamp, on the match at i (0: no match);
\* the match is a date and a clock reading only when it covers whole tokens
ParseCleanTimestamp(text, i) ==
    IF i = 0 THEN None
    ELSE IF text[i] \in DateLikeTokens /\ text[i + 2] \in ClockLikeDotTokens
         THEN TryFormats(SubSeq(text, i, i + 2), 1)
         ELSE None

ParseStripped(text, first) ==
    IF first # None THEN first ELSE ParseCleanTimestamp(text, SearchDateTime(text, 1))

ParseStrippedTimestamp(text) == ParseStripped(text, TryFormats(text, 1))

\* LogParser._parse_timestamp
ParseTimestamp(timestamp_str) == ParseStrippedTimestamp(Strip(timestamp_str))

(***************************************************************************)
(* DJANGO_LOG_PATTERNS: the four recognizers.  Each returns None or        *)
(* Some(groups), the groups being pieces of the line.                      *)
(***************************************************************************)

\* ^\[([^\]]+)\]\s+(\w+)\s+([^:]+):\s*(.+)$
Recognizer1(line) ==
    LET k == FirstIn(line, 2, BracketTokens)
        p == SkipSpaces(line, k + 1)
        q == SkipSpaces(line, p + 1)
        c == FirstIn(line, q, ColonTokens)
        m == SkipSpaces(line, c + 1)
    IN  IF /\ Len(line) >= 1
           /\ line[1] = "["
           /\ k >= 3
           /\ p > k + 1
           /\ p <= Len(line)
           /\ line[p] \in WordTokens
           /\ q > p + 1
           /\ c > q
           /\ line[c] = ":"
           /\ m <= Len(line)
        THEN Some(<<SubSeq(line, 2, k - 1), <<line[p]>>,
                    SubSeq(line, q, c - 1), SubSeq(line, m, Len(line))>>)
        ELSE None

\* ^([0-9-]+\s+[0-9:,]+)\s+-\s+([^-]+)\s+-\s+(\w+)\s+-\s*(.+)$
Recognizer2(line) ==
    LET a == SkipSpaces(line, 2)
        b == SkipSpaces(line, a + 1)
        c == SkipSpaces(line, b + 1)
        h == FirstIn(line, c, HyphenTokens)
        d == SkipSpaces(line, h + 1)
        e == SkipSpaces(line, d + 1)
        m == SkipSpaces(line, e + 1)
    IN  IF /\ Len(line) >= 1
           /\ line[1] \in DateLikeTokens
           /\ a > 2
           /\ a <= Len(line)
           /\ line[a] \in ClockLikeTokens
           /\ b > a + 1
           /\ b <= Len(line)
           /\ line[b] = "-"
           /\ c > b + 1
           /\ h >= c + 2
           /\ line[h] = "-"
           /\ IsSpace(line[h - 1])
           /\ d > h + 1
           /\ d <= Len(line)
           /\ line[d] \in WordTokens
           /\ e > d + 1
           /\ e <= Len(line)
           /\ line[e] = "-"
           /\ m <= Len(line)
        THEN Some(<<SubSeq(line, 1, a), SubSeq(line, c, h - 2),
                    <<line[d]>>, SubSeq(line, m, Len(line))>>)
        ELSE None

\* ^([0-9-]+\s+[0-9:,]+)\s+(\w+):\s*(.+)$
Recognizer3(line) ==
    LET a == SkipSpaces(line, 2)
        d == SkipSpaces(line, a + 1)
        m == SkipSpaces(line, d + 2)
    IN  IF /\ Len(line) >= 1
           /\ line[1] \in DateLikeTokens
           /\ a > 2
           /\ a <= Len(line)
           /\ line[a] \in ClockLikeTokens
           /\ d > a + 1
           /\ d + 1 <= Len(line)
           /\ line[d] \in WordTokens
           /\ line[d + 1] = ":"
           /\ m <= Len(line)
        THEN Some(<<SubSeq(line, 1, a), <<line[d]>>, SubSeq(line, m, Len(line))>>)
        ELSE None

\* ^\[([^\]]+)\]\s+\[(\w+)\]\s*(.+)$
Recognizer4(line) ==
    LET k == FirstIn(line, 2, BracketTokens)
        p == SkipSpaces(line, k + 1)
        m == SkipSpaces(line, p + 3)
    IN  IF /\ Len(line) >= 1
           /\ line[1] = "["
           /\ k >= 3
           /\ p > k + 1
           /\ p + 2 <= Len(line)
           /\ line[p] = "["
           /\ line[p + 1] \in WordTokens
           /\ line[p + 2] = "]"
           /\ m <= Len(line)
        THEN Some(<<SubSeq(line, 2, k - 1), <<line[p + 1]>>, SubSeq(line, m, Len(line))>>)
        ELSE None

\* what _parse_log_line returns for a header: (timestamp, level, logger, message)
Parsed(timestamp, level, logger, message) ==
    [timestamp |-> timestamp, level |-> level, logger |-> logger, message |-> message]

\* a match: the index of the pattern in DJANGO_LOG_PATTERNS and match.groups()
Match(pattern, groups) == [pattern |-> pattern, groups |-> groups]

\* the loop over DJANGO_LOG_PATTERNS: the first recognizer that matches wins
FirstMatch(m1, m2, m3, m4) ==
    IF m1 # None THEN Some(Match(1, m1[1]))
    ELSE IF m2 # None THEN Some(Match(2, m2[1]))
    ELSE IF m3 # None THEN Some(Match(3, m3[1]))
    ELSE IF m4 # None THEN Some(Match(4, m4[1]))
    ELSE None

\* len(groups) == 4: timestamp_str, level, logger, message = groups
FourGroups(groups, timestamp) ==
    Parsed(timestamp, JoinTokens(UpperText(groups[2])), JoinTokens(Strip(groups[3])), groups[4])

\* len(groups) == 3: timestamp_str, level, message = groups
ThreeGroups(groups, timestamp, logger) ==
    Parsed(timestamp, JoinTokens(UpperText(groups[2])), logger, groups[3])

\* the body of "if match:" in _parse_log_line
Assign(match, timestamp) ==
    IF Len(match.groups) = 4 THEN FourGroups(match.groups, timestamp)
    ELSE IF match.pattern = 4 THEN ThreeGroups(match.groups, timestamp, "gunicorn")
    ELSE ThreeGroups(match.groups, timestamp, "django")

AssignMatch(found) ==
    IF found = None THEN None
    ELSE Some(Assign(found[1], ParseTimestamp(found[1].groups[1])))

\* LogParser._parse_log_line
ParseLogLine(line) ==
    AssignMatch(FirstMatch(Recognizer1(line), Recognizer2(line),
                           Recognizer3(line), Recognizer4(line)))

(***************************************************************************)
(* LogEntry: metadata extraction, error_signature, is_error, is_warning.   *)
(***************************************************************************)

\* \b(?:[0-9]{1,3}\.){3}[0-9]{1,3}\b
IPv4Tokens == {"192.168.1.10"}

\* tokens that begin with HTTP
HttpTokens == {"HTTP", "HTTP/1.1"}

\* [a-f0-9-]+ after the marker rid=
HexDashTokens == {"ab12-cd34"} \cup NumberTokens

\* int() of a \d{3} token
IntOf(tok) == CASE tok = "200" -> 200 [] OTHER -> 0

\* re.search(ip_pattern, message)
SearchIp(message) ==
    LET i == FirstIn(message, 1, IPv4Tokens)
    IN  IF i = 0 THEN None ELSE Some(message[i])

\* the end of group 1 of "[A-Z]+ ([^"]+) HTTP when the pattern matches at the
\* quote at i: the last blank before an HTTP token, no quote in between (0 if none)
RECURSIVE UrlGroupEnd(_, _, _)
UrlGroupEnd(message, i, j) ==
    IF j <= i + 3 THEN 0
    ELSE IF /\ j + 1 <= Len(message)
            /\ message[j] = " "
            /\ message[j + 1] \in HttpTokens
            /\ \A n \in (i + 3)..(j - 1) : message[n] \notin QuoteTokens
         THEN j
         ELSE UrlGroupEnd(message, i, j - 1)

UrlMatchesAt(message, i) ==
    /\ i + 2 <= Len(message)
    /\ message[i] \in QuoteTokens
    /\ message[i + 1] \in UpperAlphaTokens
    /\ message[i + 2] = " "
    /\ UrlGroupEnd(message, i, Len(message)) # 0

\* re.search(r'"[A-Z]+ ([^"]+) HTTP', message).group(1)
SearchUrl(message) ==
    LET hits == {i \in 1..Len(message) : UrlMatchesAt(message, i)}
        i == CHOOSE n \in hits : \A o \in hits : n <= o
    IN  IF hits = {} THEN None
        ELSE Some(JoinTokens(SubSeq(message, i + 3, UrlGroupEnd(message, i, Len(message)) - 1)))

StatusMatchesAt(message, i) ==
    /\ i + 3 <= Len(message)
    /\ message[i] \in QuoteTokens
    /\ message[i + 1] = " "
    /\ message[i + 2] \in ThreeDigitTokens
    /\ IsSpace(message[i + 3])

\* a status search that asks for no quote: the first \d{3} token after a blank
SearchStatusUnquoted(message) ==
    LET hits == {i \in 2..Len(message) :
                    message[i] \in ThreeDigitTokens /\ IsSpace(message[i - 1])}
        i == CHOOSE n \in hits : \A o \in hits : n <= o
    IN  IF hits = {} THEN None ELSE Some(IntOf(message[i]))

\* int(re.search(r'" (\d{3}) ', message).group(1))
SearchStatus(message) ==
    LET hits == {i \in 1..Len(message) : StatusMatchesAt(message, i)}
        i == CHOOSE n \in hits : \A o \in hits : n <= o
    IN  IF hits = {} THEN None ELSE Some(IntOf(message[i + 2]))

\* re.search(r'rid=([a-f0-9-]+)', message).group(1)
SearchRequestId(message) ==
    LET hits == {i \in 1..(Len(message) - 1) :
                    message[i] = "rid=" /\ message[i + 1] \in HexDashTokens}
        i == CHOOSE n \in hits : \A o \in hits : n <= o
    IN  IF hits = {} THEN None ELSE Some(message[i + 1])

\* LogEntry(...) and __post_init__ / _extract_metadata: the metadata is read
\* from the message the entry is constructed with
NewLogEntry(timestamp, level, logger, message, raw_line, line_number) ==
    [timestamp |-> timestamp, level |-> level, logger |-> logger,
     message |-> message, traceback |-> <<>>, raw_line |-> raw_line,
     line_number |-> line_number,
     request_id |-> SearchRequestId(message), user_id |-> None,
     ip_address |-> SearchIp(message), url_path |-> SearchUrl(message),
     status_code |-> SearchStatus(message)]

\* words that \w+Error or Exception matches up to their end
ExceptionTokens == {"ConnectionError", "ValueError", "OperationalError", "Exception"}

\* re.search(r'(\w+Error|Exception):', message).group(1)
SearchException(message) ==
    LET hits == {i \in 1..(Len(message) - 1) :
                    message[i] \in ExceptionTokens /\ message[i + 1] = ":"}
        i == CHOOSE n \in hits : \A o \in hits : n <= o
    IN  IF hits = {} THEN None ELSE Some(message[i])

\* 'File "/' in line
HasFilePath(line) ==
    \E i \in 1..(Len(line) - 3) :
        /\ line[i] = "File"
        /\ line[i + 1] = " "
        /\ line[i + 2] \in QuoteTokens
        /\ line[i + 3] \in PathTokens

\* '/site-packages/' in line
HasSitePackages(line) == \E i \in 1..Len(line) : line[i] \in SitePackagesTokens

\* the loop over self.traceback with its break: the first application frame
RECURSIVE FirstAppFrame(_)
FirstAppFrame(traceback) ==
    IF traceback = <<>> THEN None
    ELSE IF ~HasSitePackages(traceback[1]) /\ HasFilePath(traceback[1])
         THEN Some(JoinTokens(Strip(traceback[1])))
         ELSE FirstAppFrame(Tail(traceback))

\* '|'.join(signature_parts)
RECURSIVE JoinPipe(_)
JoinPipe(parts) ==
    IF parts = <<>> THEN ""
    ELSE IF Len(parts) = 1 THEN parts[1]
    ELSE parts[1] \o "|" \o JoinPipe(Tail(parts))

\* hashlib.md5(...).hexdigest()[:8].  The digest is not computed: it is a tag
\* of the string, so two signature strings of the model never collide.
Md5Hex8(signature_str) == "md5:" \o signature_str

\* a signature built from level and logger alone
LevelLoggerParts(entry) == <<entry.level, entry.logger>>

\* a signature built from level, logger and the whole message text
PartsWithMessage(entry) ==
    <<entry.level, entry.logger, JoinTokens(entry.message)>> \o FirstAppFrame(entry.traceback)

SignatureParts(entry) ==
    <<entry.level, entry.logger>> \o SearchException(entry.message)
        \o FirstAppFrame(entry.traceback)

\* LogEntry.error_signature
error_signature(entry) == Md5Hex8(JoinPipe(SignatureParts(entry)))

\* LogEntry.is_error, LogEntry.is_warning
is_error(entry) == UpperStr(entry.level) \in {"ERROR", "CRITICAL", "FATAL"}

is_warning(entry) == UpperStr(entry.level) = "WARNING"

(***************************************************************************)
(* LogParser.parse_logs: the pass over the lines.                          *)
(***************************************************************************)

\* phrases that chain two tracebacks
ChainingTokens ==
    {"During handling of the above exception", "The above exception was the direct cause"}

\* '  File "' in line
HasFileMarker(line) ==
    \E i \in 1..(Len(line) - 3) :
        /\ SpaceWidth(line[i]) >= 2
        /\ line[i + 1] = "File"
        /\ line[i + 2] = " "
        /\ line[i + 3] \in QuoteTokens

\* LogParser._is_traceback_line: any(indicator in line ...)
IsTracebackLine(line) ==
    \/ \E i \in 1..Len(line) : line[i] = "Traceback (most recent call last):"
    \/ HasFileMarker(line)
    \/ \E i \in 1..Len(line) : SpaceWidth(line[i]) >= 4
    \/ \E i \in 1..Len(line) : line[i] \in ChainingTokens

\* the locals of parse_logs together with self.entries
LoopState(current_entry, in_traceback, entries) ==
    [current_entry |-> current_entry, in_traceback |-> in_traceback, entries |-> entries]

\* LogParser._finalize_entry
FinalizeEntry(entries, entry) == Append(entries, entry)

\* an entry numbered as by enumerate(log_lines), from 0
StartEntryFromZero(st, parsed, line, line_num) ==
    LoopState(
        Some(NewLogEntry(parsed.timestamp, parsed.level, parsed.logger,
                         parsed.message, line, line_num - 1)),
        FALSE,
        IF st.current_entry # None
        THEN FinalizeEntry(st.entries, st.current_entry[1])
        ELSE st.entries)

\* if parsed: save the previous entry, start a new one
StartEntry(st, parsed, line, line_num) ==
    LoopState(
        Some(NewLogEntry(parsed.timestamp, parsed.level, parsed.logger,
                         parsed.message, line, line_num)),
        FALSE,
        IF st.current_entry # None
        THEN FinalizeEntry(st.entries, st.current_entry[1])
        ELSE st.entries)

\* a stack line that leaves in_traceback as it was
AppendTracebackOnce(st, line) ==
    LoopState(
        Some([st.current_entry[1] EXCEPT !.traceback = Append(@, line)]),
        st.in_traceback,
        st.entries)

\* a stack line that is appended to the message as well
AppendTracebackAndMessage(st, line) ==
    LoopState(
        Some([st.current_entry[1] EXCEPT !.traceback = Append(@, line),
                                         !.message = @ \o <<" ">> \o Strip(line)]),
        TRUE,
        st.entries)

\* current_entry.traceback.append(line); in_traceback = True
AppendTraceback(st, line) ==
    LoopState(
        Some([st.current_entry[1] EXCEPT !.traceback = Append(@, line)]),
        TRUE,
        st.entries)

\* a continuation that is written to the entry stored last, if there is one
AppendMessageToStored(st, line) ==
    IF st.entries = <<>>
    THEN LoopState(
             Some([st.current_entry[1] EXCEPT !.message = @ \o <<" ">> \o Strip(line)]),
             st.in_traceback,
             st.entries)
    ELSE LoopState(
             st.current_entry,
             st.in_traceback,
             [st.entries EXCEPT ![Len(st.entries)].message = @ \o <<" ">> \o Strip(line)])

\* current_entry.message += ' ' + line.strip()
AppendMessage(st, line) ==
    LoopState(
        Some([st.current_entry[1] EXCEPT !.message = @ \o <<" ">> \o Strip(line)]),
        st.in_traceback,
        st.entries)

\* "if not line": the stripped line is empty and is skipped
IsBlankLine(line) == line = <<>>

\* a loop body that opens an entry for an unrecognised line when none is open
DispatchOpening(st, line, parsed, line_num) ==
    IF parsed # None THEN StartEntry(st, parsed[1], line, line_num)
    ELSE IF st.current_entry # None /\ (st.in_traceback \/ IsTracebackLine(line))
         THEN AppendTraceback(st, line)
    ELSE IF st.current_entry # None THEN AppendMessage(st, line)
    ELSE StartEntry(st, [timestamp |-> None, level |-> "INFO", logger |-> "unknown",
                         message |-> line], line, line_num)

\* the branches of the loop body for a line that is not blank
Dispatch(st, line, parsed, line_num) ==
    IF parsed # None THEN StartEntry(st, parsed[1], line, line_num)
    ELSE IF st.current_entry # None /\ (st.in_traceback \/ IsTracebackLine(line))
         THEN AppendTraceback(st, line)
    ELSE IF st.current_entry # None THEN AppendMessage(st, line)
    ELSE st

\* a loop body without the "if not line: continue" of parse_logs
ProcessWithoutSkip(st, line, line_num) == Dispatch(st, line, ParseLogLine(line), line_num)

\* the loop body after line.rstrip()
ProcessStripped(st, line, line_num) ==
    IF IsBlankLine(line) THEN st ELSE Dispatch(st, line, ParseLogLine(line), line_num)

\* one iteration of the for loop of parse_logs
ProcessLine(st, raw, line_num) == ProcessStripped(st, RStrip(raw), line_num)

\* the for loop: lines line_num..len(log_lines), numbered from 1
RECURSIVE RunLoop(_, _, _)
RunLoop(st, log_lines, line_num) ==
    IF line_num > Len(log_lines) THEN st
    ELSE RunLoop(ProcessLine(st, log_lines[line_num], line_num), log_lines, line_num + 1)

\* an end of input that leaves the open entry out
ForgetLast(st) == st.entries

\* "Don't forget the last entry"
FinalizeLast(st) ==
    IF st.current_entry # None
    THEN FinalizeEntry(st.entries, st.current_entry[1])
    ELSE st.entries

\* self.entries after the loop and the last _finalize_entry, starting from the
\* list self.entries that the call begins with
ParseEntries(start_entries, log_lines) ==
    FinalizeLast(RunLoop(LoopState(None, FALSE, start_entries), log_lines, 1))

(***************************************************************************)
(* ErrorGroup.add_entry and LogParser._group_errors.  Comparing an         *)
(* offset-naive with an offset-aware datetime raises TypeError.            *)
(***************************************************************************)

Comparable(a, b) == a.aware = b.aware

\* the instant an aware datetime denotes; a naive one compares by its reading
Instant(a) == IF a.aware THEN a.ms - SecondsMs(a.off * 60) ELSE a.ms

DtLess(a, b) == Instant(a) < Instant(b)

NewErrorGroup(signature) ==
    [signature |-> signature, count |-> 0, first_seen |-> None, last_seen |-> None,
     example_entry |-> None, entries |-> <<>>]

\* the outcome of a step that may raise: the value reached and whether it raised
Outcome(raised, value) == [raised |-> raised, value |-> value]

\* self.entries.append(entry); self.count += 1
AddMember(group, entry) ==
    [group EXCEPT !.entries = Append(@, entry), !.count = @ + 1]

\* a first_seen that an entry without a timestamp overwrites
UpdateFirstSeenUnstamped(group, entry) ==
    IF group.first_seen = None \/ entry.timestamp = None
    THEN Outcome(FALSE, [group EXCEPT !.first_seen = entry.timestamp])
    ELSE IF ~Comparable(entry.timestamp[1], group.first_seen[1]) THEN Outcome(TRUE, group)
    ELSE IF DtLess(entry.timestamp[1], group.first_seen[1])
         THEN Outcome(FALSE, [group EXCEPT !.first_seen = entry.timestamp])
         ELSE Outcome(FALSE, group)

\* if not self.first_seen or (entry.timestamp and entry.timestamp < self.first_seen)
UpdateFirstSeen(group, entry) ==
    IF group.first_seen = None THEN Outcome(FALSE, [group EXCEPT !.first_seen = entry.timestamp])
    ELSE IF entry.timestamp = None THEN Outcome(FALSE, group)
    ELSE IF ~Comparable(entry.timestamp[1], group.first_seen[1]) THEN Outcome(TRUE, group)
    ELSE IF DtLess(entry.timestamp[1], group.first_seen[1])
         THEN Outcome(FALSE, [group EXCEPT !.first_seen = entry.timestamp])
         ELSE Outcome(FALSE, group)

\* if not self.last_seen or (entry.timestamp and entry.timestamp > self.last_seen)
UpdateLastSeen(group, entry) ==
    IF group.last_seen = None THEN Outcome(FALSE, [group EXCEPT !.last_seen = entry.timestamp])
    ELSE IF entry.timestamp = None THEN Outcome(FALSE, group)
    ELSE IF ~Comparable(entry.timestamp[1], group.last_seen[1]) THEN Outcome(TRUE, group)
    ELSE IF DtLess(group.last_seen[1], entry.timestamp[1])
         THEN Outcome(FALSE, [group EXCEPT !.last_seen = entry.timestamp])
         ELSE Outcome(FALSE, group)

\* an example that is also replaced by an entry of equal timestamp
UpdateExampleOnTie(group, entry) ==
    IF group.example_entry = None THEN Outcome(FALSE, [group EXCEPT !.example_entry = Some(entry)])
    ELSE IF entry.timestamp = None THEN Outcome(FALSE, group)
    ELSE IF group.example_entry[1].timestamp = None
         THEN Outcome(FALSE, [group EXCEPT !.example_entry = Some(entry)])
    ELSE IF ~Comparable(entry.timestamp[1], group.example_entry[1].timestamp[1])
         THEN Outcome(TRUE, group)
    ELSE IF ~DtLess(entry.timestamp[1], group.example_entry[1].timestamp[1])
         THEN Outcome(FALSE, [group EXCEPT !.example_entry = Some(entry)])
         ELSE Outcome(FALSE, group)

\* an example that an entry without a timestamp replaces as well
UpdateExampleUnstamped(group, entry) ==
    IF group.example_entry = None \/ entry.timestamp = None
    THEN Outcome(FALSE, [group EXCEPT !.example_entry = Some(entry)])
    ELSE IF group.example_entry[1].timestamp = None
         THEN Outcome(FALSE, [group EXCEPT !.example_entry = Some(entry)])
    ELSE IF ~Comparable(entry.timestamp[1], group.example_entry[1].timestamp[1])
         THEN Outcome(TRUE, group)
    ELSE IF DtLess(group.example_entry[1].timestamp[1], entry.timestamp[1])
         THEN Outcome(FALSE, [group EXCEPT !.example_entry = Some(entry)])
         ELSE Outcome(FALSE, group)

\* if not self.example_entry or (entry.timestamp and
\*     (not self.example_entry.timestamp or entry.timestamp > self.example_entry.timestamp))
UpdateExample(group, entry) ==
    IF group.example_entry = None THEN Outcome(FALSE, [group EXCEPT !.example_entry = Some(entry)])
    ELSE IF entry.timestamp = None THEN Outcome(FALSE, group)
    ELSE IF group.example_entry[1].timestamp = None
         THEN Outcome(FALSE, [group EXCEPT !.example_entry = Some(entry)])
    ELSE IF ~Comparable(entry.timestamp[1], group.example_entry[1].timestamp[1])
         THEN Outcome(TRUE, group)
    ELSE IF DtLess(group.example_entry[1].timestamp[1], entry.timestamp[1])
         THEN Outcome(FALSE, [group EXCEPT !.example_entry = Some(entry)])
         ELSE Outcome(FALSE, group)

\* the steps of add_entry in turn; a raise leaves the group as mutated so far
ThenExample(last, entry) == IF last.raised THEN last ELSE UpdateExample(last.value, entry)

ThenLastSeen(first, entry) ==
    IF first.raised THEN first ELSE ThenExample(UpdateLastSeen(first.value, entry), entry)

\* ErrorGroup.add_entry
add_entry(group, entry) == ThenLastSeen(UpdateFirstSeen(AddMember(group, entry), entry), entry)

\* self.error_groups is a dict: a sequence of groups in insertion order,
\* no two with the same signature
GroupIndex(error_groups, signature) ==
    IF \E i \in 1..Len(error_groups) : error_groups[i].signature = signature
    THEN CHOOSE i \in 1..Len(error_groups) : error_groups[i].signature = signature
    ELSE 0

\* self.error_groups[signature].add_entry(entry), the group being the i-th
AddToGroup(error_groups, i, added) == Outcome(added.raised, [error_groups EXCEPT ![i] = added.value])

AddAt(error_groups, i, entry) == AddToGroup(error_groups, i, add_entry(error_groups[i], entry))

\* a grouping that makes a new group for every error entry
GroupSignedAnew(error_groups, entry, signature, known) ==
    AddAt(Append(error_groups, NewErrorGroup(signature)), Len(error_groups) + 1, entry)

\* if signature not in self.error_groups: self.error_groups[signature] = ErrorGroup(...)
GroupSigned(error_groups, entry, signature, known) ==
    IF known = 0
    THEN AddAt(Append(error_groups, NewErrorGroup(signature)), Len(error_groups) + 1, entry)
    ELSE AddAt(error_groups, known, entry)

GroupBySignature(error_groups, entry, signature) ==
    GroupSigned(error_groups, entry, signature, GroupIndex(error_groups, signature))

\* the body of the loop of _group_errors for one error-level entry
GroupEntry(error_groups, entry) == GroupBySignature(error_groups, entry, error_signature(entry))

\* LogParser._group_errors over entries[k..]; stops where add_entry raises
RECURSIVE GroupErrors(_, _, _)
GroupRest(step, entries, k) ==
    IF step.raised THEN step ELSE GroupErrors(step.value, entries, k + 1)

GroupErrors(error_groups, entries, k) ==
    IF k > Len(entries) THEN Outcome(FALSE, error_groups)
    ELSE IF ~is_error(entries[k]) THEN GroupErrors(error_groups, entries, k + 1)
    ELSE GroupRest(GroupEntry(error_groups, entries[k]), entries, k)

(***************************************************************************)
(* LogParser._generate_summary and LogParser.get_error_trends.             *)
(***************************************************************************)

\* recent_errors[-10:]
RecentLimit == 10

\* datetime.fromtimestamp(now.timestamp() - seconds)
SecondsBefore(now, seconds) == Naive(now.ms - SecondsMs(seconds))

\* the filter of a for loop that appends: the entries satisfying Keep, in order
Collect(entries, Keep(_)) == SelectSeq(entries, Keep)

\* seq[-n:]
LastN(seq, n) == IF Len(seq) <= n THEN seq ELSE SubSeq(seq, Len(seq) - n + 1, Len(seq))

\* level_counts: a dict from level to the number of entries of that level
LevelCounts(entries) ==
    [level \in {entries[i].level : i \in 1..Len(entries)} |->
        Cardinality({i \in 1..Len(entries) : entries[i].level = level})]

\* an insertion that puts a group before the groups of equal count
RECURSIVE InsertBeforeTies(_, _)
InsertBeforeTies(sorted, group) ==
    IF sorted = <<>> THEN <<group>>
    ELSE IF sorted[1].count > group.count
         THEN <<sorted[1]>> \o InsertBeforeTies(Tail(sorted), group)
         ELSE <<group>> \o sorted

\* sorted(groups, key=lambda g: g.count, reverse=True): groups of equal count
\* keep the order they have in the dict
RECURSIVE InsertByCount(_, _)
InsertByCount(sorted, group) ==
    IF sorted = <<>> THEN <<group>>
    ELSE IF sorted[1].count >= group.count
         THEN <<sorted[1]>> \o InsertByCount(Tail(sorted), group)
         ELSE <<group>> \o sorted

RECURSIVE SortGroupsFrom(_, _, _)
SortGroupsFrom(sorted, groups, k) ==
    IF k > Len(groups) THEN sorted
    ELSE SortGroupsFrom(InsertByCount(sorted, groups[k]), groups, k + 1)

SortedErrorGroups(error_groups) == SortGroupsFrom(<<>>, error_groups, 1)

\* a recency test that lets an entry without a timestamp pass
IsRecentOrUnstamped(entry, one_hour_ago) ==
    entry.timestamp = None \/ DtLess(one_hour_ago, entry.timestamp[1])

\* entry.timestamp and entry.timestamp > one_hour_ago
IsRecent(entry, one_hour_ago) ==
    entry.timestamp # None /\ DtLess(one_hour_ago, entry.timestamp[1])

\* the comparison with a naive datetime raises for an aware timestamp
RaisesAgainst(entries, naive) ==
    \E i \in 1..Len(entries) :
        entries[i].timestamp # None /\ ~Comparable(entries[i].timestamp[1], naive)

\* LogParser._generate_summary, now being datetime.now()
GenerateSummary(entries, error_groups, now) ==
    LET one_hour_ago == SecondsBefore(now, 3600)
        recentError(e) == IsRecent(e, one_hour_ago) /\ is_error(e)
        recentWarning(e) == IsRecent(e, one_hour_ago) /\ ~is_error(e) /\ is_warning(e)
    IN  IF RaisesAgainst(entries, one_hour_ago) THEN Outcome(TRUE, None)
        ELSE Outcome(FALSE,
                [total_entries |-> Len(entries),
                 level_counts |-> LevelCounts(entries),
                 error_groups |-> SortedErrorGroups(error_groups),
                 recent_errors |-> LastN(Collect(entries, recentError), RecentLimit),
                 recent_warnings |-> LastN(Collect(entries, recentWarning), RecentLimit),
                 entries |-> entries,
                 parsing_timestamp |-> now])

\* entry.timestamp.strftime('%Y-%m-%d %H:00'): the hour the reading falls in
HourKey(timestamp) == timestamp.ms \div SecondsMs(3600)

\* a window that leaves out the entry stamped exactly at the cutoff
InWindowStrict(entry, cutoff_time) ==
    entry.timestamp # None /\ DtLess(cutoff_time, entry.timestamp[1])

\* not (not entry.timestamp or entry.timestamp < cutoff_time)
InWindow(entry, cutoff_time) ==
    entry.timestamp # None /\ ~DtLess(entry.timestamp[1], cutoff_time)

\* a defaultdict(int) counting the hour keys of the entries satisfying Keep
HourlyCounts(entries, Keep(_)) ==
    LET kept == Collect(entries, Keep)
    IN  [key \in {HourKey(kept[i].timestamp[1]) : i \in 1..Len(kept)} |->
            Cardinality({i \in 1..Len(kept) : HourKey(kept[i].timestamp[1]) = key})]

\* sum(d.values())
RECURSIVE SumValues(_, _)
SumValues(d, keys) ==
    IF keys = {} THEN 0
    ELSE LET key == CHOOSE x \in keys : TRUE
         IN  d[key] + SumValues(d, keys \ {key})

\* LogParser.get_error_trends, now being datetime.now()
GetTrends(entries, hours, now) ==
    LET cutoff_time == SecondsBefore(now, hours * 3600)
        error(e) == InWindow(e, cutoff_time) /\ is_error(e)
        warning(e) == InWindow(e, cutoff_time) /\ ~is_error(e) /\ is_warning(e)
        hourly_errors == HourlyCounts(entries, error)
        hourly_warnings == HourlyCounts(entries, warning)
    IN  IF RaisesAgainst(entries, cutoff_time) THEN Outcome(TRUE, None)
        ELSE Outcome(FALSE,
                [hourly_errors |-> hourly_errors,
                 hourly_warnings |-> hourly_warnings,
                 total_errors_period |-> SumValues(hourly_errors, DOMAIN hourly_errors),
                 total_warnings_period |-> SumValues(hourly_warnings, DOMAIN hourly_warnings)])

(***************************************************************************)
(* The lines the model feeds to parse_logs.                                *)
(***************************************************************************)

\* [timestamp] LEVEL logger: message
Header1(stamp, level, logger, message) ==
    <<"[">> \o stamp \o <<"]", " ", level, " ", logger, ":", " ">> \o message

\* timestamp - logger - LEVEL - message
Header2(stamp, logger, level, message) ==
    stamp \o <<" ", "-", " ", logger, " ", "-", " ", level, " ", "-", " ">> \o message

\* timestamp LEVEL: message
Header3(stamp, level, message) == stamp \o <<" ", level, ":", " ">> \o message

\* [timestamp] [LEVEL] message
Header4(stamp, level, message) == <<"[">> \o stamp \o <<"]", " ", "[", level, "]", " ">> \o message

ServerErrorMessage == <<"Internal", " ", "Server", " ", "Error", ":", " ", "/api/payments/">>

\* src/test_logs.py, SAMPLE_DJANGO_LOGS
LineServerError1620 ==
    Header1(<<"2024-06-30", " ", "16:20:01,123">>, "ERROR", "django.request", ServerErrorMessage)

LineServerError1624 ==
    Header1(<<"2024-06-30", " ", "16:24:01,555">>, "ERROR", "django.request", ServerErrorMessage)

LineTraceback == <<"Traceback (most recent call last):">>

LineAppFrame ==
    <<"  ", "File", " ", "\"", "/app/payments/views.py", "\"", ", line 45, in process_payment">>

LineCode == <<"    ", "result = stripe.charge.create(amount=amount)">>

LineConnectionError == <<"ConnectionError", ":", " ", "Could not connect to Stripe API">>

LineEmpty == <<>>

LineConnectionTimeout ==
    Header1(<<"2024-06-30", " ", "16:24:01,555">>, "ERROR", "django.request",
            <<"ConnectionError", ":", " ", "timeout after", " ", "30">>)

LineHealth ==
    Header1(<<"2024-06-30", " ", "16:21:20,789">>, "INFO", "django.request",
            <<"GET", " ", "/health/", " ", "200">>)

\* further lines of the shapes the parser supports
LineBlanks == <<"  ">>

LineGarbage == <<"garbage">>

LineSiteFrame ==
    <<"  ", "File", " ", "\"", "/usr/lib/python3/site-packages/django/core/handlers/base.py",
      "\"", ", line 181, in _get_response">>

LineValueError42 ==
    Header1(<<"2024-06-30", " ", "16:24:01,555">>, "ERROR", "django.request",
            <<"ValueError", ":", " ", "bad id", " ", "42">>)

LineValueError43 ==
    Header1(<<"2024-06-30", " ", "16:20:01,123">>, "ERROR", "django.request",
            <<"ValueError", ":", " ", "bad id", " ", "43">>)

LineNoTimestamp ==
    Header1(<<"worker">>, "ERROR", "django.request", <<"ValueError", ":", " ", "bad id", " ", "42">>)

LineOffset ==
    Header1(<<"30/Jun/2024", ":", "16:20:01", " ", "+0000">>, "ERROR", "django.request",
            ServerErrorMessage)

LineAccess ==
    Header1(<<"30/Jun/2024", " ", "16:22:00">>, "INFO", "django.server",
            <<"\"", "GET", " ", "/health/", " ", "HTTP/1.1", "\"", " ", "200", " ", "15",
              " ", "192.168.1.10", " ", "rid=", "ab12-cd34">>)

LineDotFraction ==
    Header1(<<"2024-06-30", " ", "16:20:01.123">>, "CRITICAL", "django.db", <<"Database connection lost">>)

LinePython ==
    Header2(<<"2024-06-30", " ", "16:20:01,123">>, "myapp", "ERROR", <<"something bad">>)

LinePythonLower ==
    Header2(<<"2024-06-30", " ", "16:24:01">>, "myapp", "error", <<"something bad">>)

LinePythonHyphen ==
    Header2(<<"2024-06-30", " ", "16:20:01,123">>, "my-app", "ERROR", <<"something bad">>)

LineSimpleWarning ==
    Header3(<<"2024-06-30", " ", "16:22:00">>, "WARNING", <<"disk almost full">>)

LineGunicorn ==
    Header4(<<"2024-06-30", " ", "16:24:01", " ", "+0000">>, "CRITICAL", <<"Worker failed to boot">>)

LineDbCritical1530 ==
    Header1(<<"2024-06-30", " ", "15:30:00">>, "CRITICAL", "django.db", <<"Database connection lost">>)

LineDbFatal ==
    Header1(<<"2024-06-30", " ", "16:20:01,123">>, "FATAL", "django.db", <<"Database connection lost">>)

LineServed ==
    Header1(<<"2024-06-30", " ", "16:22:00">>, "INFO", "django.server", <<"request served">>)

\* the text of an access-log record, on a line of its own
LineAccessText ==
    <<"\"", "GET", " ", "/health/", " ", "HTTP/1.1", "\"", " ", "200", " ", "15",
      " ", "192.168.1.10", " ", "rid=", "ab12-cd34">>

\* the lines every batch up to MaxLines lines is built from
Lines ==
    {LineServerError1620, LineValueError42, LineAppFrame, LineConnectionError,
     LineEmpty, LineSimpleWarning, LineOffset}

MaxLines == 3

SeqsUpTo(S, n) == UNION {[1..k -> S] : k \in 0..n}

Repeat(line, n) == [i \in 1..n |-> line]

\* the scenario of the specification, section 8
SampleBatch ==
    <<LineServerError1620, LineTraceback, LineAppFrame, LineConnectionError, LineEmpty,
      LineServerError1624, LineConnectionError>>

\* three entries with the same first application frame: the exception line of
\* the first is taken into its stack block, that of the second is wrapped into
\* its message, that of the third stands in its header
MixedPlacementBatch ==
    <<LineServerError1620, LineAppFrame, LineConnectionError,
      LineServerError1624, LineConnectionError, LineAppFrame,
      LineConnectionTimeout, LineAppFrame>>

\* three signatures, the second seen twice
RankingBatch ==
    <<LineServerError1620, LineValueError42, LineValueError43, LineSimpleWarning,
      LineServerError1624, LineAppFrame>>

\* one signature, members with and without a timestamp, two at the latest one
TimestampMixBatch ==
    <<LineNoTimestamp, LineValueError42, LineValueError43, LineValueError42, LineNoTimestamp>>

\* a header, the access record wrapped into its message, a stack line, and
\* the access record again, taken into the stack block
WrappedAccessBatch == <<LineServed, LineAccessText, LineAppFrame, LineAccessText>>

\* entries of two hours, of three levels, one without a timestamp
TrendBatch ==
    <<LineDbCritical1530, LineSimpleWarning, LineValueError42, LineNoTimestamp,
      LineServerError1620>>

\* longer batches and batches of the other line shapes
ScenarioBatches ==
    {SampleBatch,
     TimestampMixBatch,
     WrappedAccessBatch,
     TrendBatch,
     MixedPlacementBatch,
     RankingBatch,
     <<LineHealth>>,
     <<LineAccess>>,
     <<LinePython>>,
     <<LinePythonLower, LinePythonHyphen>>,
     <<LineGunicorn, LineDotFraction>>,
     <<LineGarbage, LineBlanks, LineNoTimestamp, LineValueError43, LineValueError42>>,
     <<LineServerError1620, LineTraceback, LineSiteFrame, LineEmpty, LineAppFrame, LineCode,
       LineConnectionError>>,
     <<LineServerError1620, LineTraceback, LineSiteFrame, LineAppFrame, LineCode,
       LineConnectionError>>,
     <<LineValueError43, LineAppFrame, LineValueError42, LineTraceback, LineBlanks, LineAppFrame>>,
     Repeat(LineServerError1620, RecentLimit + 1)}

Batches == SeqsUpTo(Lines, MaxLines) \cup ScenarioBatches

\* the batches of a later parse_logs call on the same parser: the empty batch,
\* every batch of one line and the sample
ReparseBatches == {<<>>, SampleBatch} \cup {<<line>> : line \in Lines}

\* the values datetime.now() takes: 16:22:00, 16:50:00 and 17:22:00 on 2024-06-30
NowValues == {Naive(Clock(16, 22, 0, 0)), Naive(Clock(16, 50, 0, 0)), Naive(Clock(17, 22, 0, 0))}

\* the windows get_error_trends is called with
HoursValues == {1, 24}

\* the get_error_trends calls: the window of one hour at every clock reading,
\* the window of a day, which holds every line of the model, at the latest
TrendCalls ==
    {c \in HoursValues \X NowValues : c[1] = 1 \/ c[2] = Naive(Clock(17, 22, 0, 0))}

(***************************************************************************)
(* The state machine: one LogParser and the calls made on it.              *)
(***************************************************************************)

VARIABLES
    entries,        \* self.entries
    error_groups,   \* self.error_groups
    log_lines,      \* the argument of the latest parse_logs call
    call,           \* the latest call: "init", "parse_logs" or "get_error_trends"
    raised,         \* whether the latest call raised
    summary,        \* what the latest parse_logs call returned (None: nothing)
    trends,         \* what the latest get_error_trends call returned (None: nothing)
    held,           \* how many entries and groups the parser held when the latest
                    \* parse_logs call began
    asked,          \* the window and the clock reading of the latest
                    \* get_error_trends call (None: the latest call is another)
    pass,           \* the locals of a parse_logs call that is under way: the number
                    \* of lines read, current_entry, in_traceback (None: no call
                    \* is under way)
    heap,           \* the identities of the list self.entries and of the dict
                    \* self.error_groups are bound to
    earlier,        \* the summary a parse_logs call returned before the latest
                    \* one, with the objects it refers to (None: there is none)
    analysis,       \* what the latest AIAnalyzer.analyze_logs call returned
                    \* (None: nothing)
    client,         \* RemoteConnection.client
    sftp,           \* RemoteConnection.sftp
    connected,      \* RemoteConnection.connected
    latest,         \* the latest of the connect() and disconnect() calls and
                    \* how it ended
    outcome,        \* the latest call on the RemoteConnection and how it ended
    commands,       \* the number of commands run on the remote server
    cli             \* the check or chat command that is running and the
                    \* statement it has reached (None: no command)

vars ==
    <<entries, error_groups, log_lines, call, raised, summary, trends, held, asked, pass,
      heap, earlier, analysis, client, sftp, connected, latest, outcome, commands, cli>>

\* the state of the LogParser
parser == <<entries, error_groups, log_lines, call, raised, summary, trends, held, asked, pass>>

\* what the holder of an earlier summary sees
holder == <<heap, earlier>>

\* the state of the RemoteConnection
remote == <<client, sftp, connected, latest, outcome, commands>>

\* RemoteConnection.__init__: no call has been made
NoCall == [op |-> "init", result |-> "none", ran |-> FALSE]

\* LogParser.__init__
Init ==
    /\ entries = <<>>
    /\ error_groups = <<>>
    /\ log_lines = <<>>
    /\ call = "init"
    /\ raised = FALSE
    /\ summary = None
    /\ trends = None
    /\ held = [entries |-> 0, groups |-> 0]
    /\ asked = None
    /\ pass = None
    /\ heap = [entries |-> 1, error_groups |-> 1]
    /\ earlier = None
    /\ analysis = None
    /\ client = None
    /\ sftp = None
    /\ connected = FALSE
    /\ latest = "none"
    /\ outcome = NoCall
    /\ commands = 0
    /\ cli = None

\* a parse_logs that keeps the entries of the call before
KeepEntries(old) == old

\* self.entries = []
ResetEntries(old) == <<>>

\* self.error_groups = {}
ResetGroups(old) == <<>>

\* what a parse_logs call leaves and returns
CallResult(parsed, grouped, built) ==
    [entries |-> parsed,
     error_groups |-> grouped.value,
     raised |-> (grouped.raised \/ built.raised),
     summary |-> IF grouped.raised \/ built.raised THEN None ELSE Some(built.value)]

Summarised(parsed, grouped, now) ==
    CallResult(parsed, grouped, GenerateSummary(parsed, grouped.value, now))

Grouped(parsed, start_groups, now) ==
    Summarised(parsed, GroupErrors(start_groups, parsed, 1), now)

\* the body of parse_logs: the pass, _group_errors, _generate_summary
RunParseLogs(start_entries, start_groups, lines, now) ==
    Grouped(ParseEntries(start_entries, lines), start_groups, now)

\* LogParser.parse_logs(lines), datetime.now() returning now
ParseLogsCall(lines, now) ==
    \E done \in {RunParseLogs(ResetEntries(entries), ResetGroups(error_groups), lines, now)} :
        /\ entries' = done.entries
        /\ error_groups' = done.error_groups
        /\ log_lines' = lines
        /\ call' = "parse_logs"
        /\ raised' = done.raised
        /\ summary' = done.summary
        /\ trends' = None
        /\ held' = [entries |-> Len(entries), groups |-> Len(error_groups)]
        /\ asked' = None
        /\ pass' = None

ParseLogs ==
    /\ pass = None
    /\ \E lines \in (IF call = "init" THEN Batches ELSE ReparseBatches), now \in NowValues :
           ParseLogsCall(lines, now)
    /\ UNCHANGED <<holder, analysis, remote, cli>>

\* a get_error_trends that drops the entries outside the window from self.entries
GetErrorTrendsPruning(hours, now) ==
    \E got \in {GetTrends(entries, hours, now)} :
        /\ call' = "get_error_trends"
        /\ raised' = got.raised
        /\ trends' = IF got.raised THEN None ELSE Some(got.value)
        /\ asked' = Some([hours |-> hours, now |-> now])
        /\ entries' = IF got.raised THEN entries
                      ELSE SelectSeq(entries,
                               LAMBDA e : InWindow(e, SecondsBefore(now, hours * 3600)))
        /\ UNCHANGED <<error_groups, log_lines, summary, held, pass>>

\* LogParser.get_error_trends(hours), datetime.now() returning now
GetErrorTrendsCall(hours, now) ==
    \E got \in {GetTrends(entries, hours, now)} :
        /\ call' = "get_error_trends"
        /\ raised' = got.raised
        /\ trends' = IF got.raised THEN None ELSE Some(got.value)
        /\ asked' = Some([hours |-> hours, now |-> now])
        /\ UNCHANGED <<entries, error_groups, log_lines, summary, held, pass>>

GetErrorTrends ==
    /\ pass = None
    /\ \E c \in TrendCalls : GetErrorTrendsCall(c[1], c[2])
    /\ UNCHANGED <<holder, analysis, remote, cli>>

Next == ParseLogs \/ GetErrorTrends

Spec == Init /\ [][Next]_vars

(***************************************************************************)
(* The same parse_logs call taken one line at a time: the call is entered, *)
(* the for loop reads the lines in turn, and after the last line the       *)
(* open entry is stored, the errors are grouped and the summary returned.  *)
(***************************************************************************)

PassLocals(line_num, current_entry, in_traceback) ==
    [line_num |-> line_num, current_entry |-> current_entry, in_traceback |-> in_traceback]

\* the locals and self.entries as the loop body sees them
PassState == LoopState(pass[1].current_entry, pass[1].in_traceback, entries)

\* parse_logs(lines) is entered: the resets, current_entry = None,
\* in_traceback = False
BeginParseCall(lines) ==
    /\ entries' = ResetEntries(entries)
    /\ error_groups' = ResetGroups(error_groups)
    /\ log_lines' = lines
    /\ call' = "parsing"
    /\ raised' = FALSE
    /\ summary' = None
    /\ trends' = None
    /\ held' = [entries |-> Len(entries), groups |-> Len(error_groups)]
    /\ asked' = None
    /\ pass' = Some(PassLocals(0, None, FALSE))

BeginParse ==
    /\ pass = None
    /\ \E lines \in (IF call = "init" THEN Batches ELSE ReparseBatches) : BeginParseCall(lines)
    /\ UNCHANGED <<holder, analysis, remote, cli>>

\* one iteration of the for loop
ReadLine ==
    /\ pass # None
    /\ pass[1].line_num < Len(log_lines)
    /\ \E st \in {ProcessLine(PassState, log_lines[pass[1].line_num + 1], pass[1].line_num + 1)} :
           /\ entries' = st.entries
           /\ pass' = Some(PassLocals(pass[1].line_num + 1, st.current_entry, st.in_traceback))
    /\ UNCHANGED <<error_groups, log_lines, call, raised, summary, trends, held, asked>>
    /\ UNCHANGED <<holder, analysis, remote, cli>>

\* after the loop: the last entry, _group_errors, _generate_summary, return
EndOfInputCall(now) ==
    \E done \in {Grouped(FinalizeLast(PassState), error_groups, now)} :
        /\ entries' = done.entries
        /\ error_groups' = done.error_groups
        /\ call' = "parse_logs"
        /\ raised' = done.raised
        /\ summary' = done.summary
        /\ pass' = None
        /\ UNCHANGED <<log_lines, trends, held, asked>>

EndOfInput ==
    /\ pass # None
    /\ pass[1].line_num = Len(log_lines)
    /\ \E now \in NowValues : EndOfInputCall(now)
    /\ UNCHANGED <<holder, analysis, remote, cli>>

PassNext == BeginParse \/ ReadLine \/ EndOfInput

PassSpec == Init /\ [][PassNext]_vars

(***************************************************************************)
(* A caller that keeps the summary of one parse_logs call while it makes   *)
(* the next call on the same LogParser.  The summary refers to objects of  *)
(* the parser: its 'entries' is the list self.entries itself, and its      *)
(* 'error_groups' is a new list of the ErrorGroup objects that are the     *)
(* values of the dict self.error_groups.                                   *)
(***************************************************************************)

\* the calls a caller makes while it keeps a summary
MaxHeldCalls == 3

\* a parse_logs that empties the list in place: self.entries.clear()
SameObject(id) == id

\* self.entries = [] and self.error_groups = {}: the attribute is bound to a
\* new object, the object it was bound to stays as it is
NewObject(id) == id + 1

\* 'entries': self.entries; 'error_groups': sorted(self.error_groups.values())
RefersTo(bound) == [entries |-> bound.entries, error_groups |-> bound.error_groups]

\* the ErrorGroup of the signature as it is now, if the dict still holds it
GroupNow(group, groups_now) ==
    IF GroupIndex(groups_now, group.signature) = 0 THEN group
    ELSE groups_now[GroupIndex(groups_now, group.signature)]

\* the summary as its holder reads it now: the list of entries is the one
\* self.entries is bound to or another; the groups are objects of the dict
\* self.error_groups is bound to or of another
ReadNow(kept, refers, bound, entries_now, groups_now) ==
    [kept EXCEPT
        !.entries = IF refers.entries = bound.entries THEN entries_now ELSE @,
        !.error_groups =
            IF refers.error_groups = bound.error_groups
            THEN [g \in 1..Len(@) |-> GroupNow(@[g], groups_now)]
            ELSE @]

\* the batches and the clock readings of the calls of such a caller
HeldBatches ==
    {<<>>, SampleBatch, TimestampMixBatch, RankingBatch, TrendBatch,
     <<LineValueError42>>, <<LineHealth>>, <<LineOffset>>}

HeldNowValues == {Naive(Clock(16, 22, 0, 0)), Naive(Clock(17, 22, 0, 0))}

\* parse_logs(lines), the caller keeping the summary of the call before
ParseHeldCall(lines, now) ==
    /\ ParseLogsCall(lines, now)
    /\ heap' = [entries |-> NewObject(heap.entries),
                error_groups |-> NewObject(heap.error_groups)]
    /\ earlier' = IF summary = None THEN earlier
                  ELSE Some([returned |-> summary[1], refers |-> RefersTo(heap)])

ParseHeld ==
    /\ pass = None
    /\ heap.entries <= MaxHeldCalls
    /\ \E lines \in HeldBatches, now \in HeldNowValues : ParseHeldCall(lines, now)
    /\ UNCHANGED <<analysis, remote, cli>>

HolderNext == ParseHeld

HolderSpec == Init /\ [][HolderNext]_vars

(***************************************************************************)
(* AIAnalyzer.analyze_logs on a summary that parse_logs returned.  The     *)
(* answer of the model service is an input: the query raises, or the text  *)
(* is no JSON, or it is JSON of one of several shapes.                     *)
(***************************************************************************)

\* level_counts.get(level, 0)
CountGet(level_counts, level) ==
    IF level \in DOMAIN level_counts THEN level_counts[level] ELSE 0

\* level_counts.get('ERROR', 0) + level_counts.get('CRITICAL', 0)
ErrorCount(parsed_logs) ==
    CountGet(parsed_logs.level_counts, "ERROR") + CountGet(parsed_logs.level_counts, "CRITICAL")

\* level_counts.get('WARNING', 0)
WarningCount(parsed_logs) == CountGet(parsed_logs.level_counts, "WARNING")

\* if error_count > 10 ... elif error_count > 0 or warning_count > 5
ManyErrors == 10

ManyWarnings == 5

\* a status that is WARNING from ManyWarnings warnings on
FallbackStatusFrom(error_count, warning_count) ==
    IF error_count > ManyErrors THEN "CRITICAL"
    ELSE IF error_count > 0 \/ warning_count >= ManyWarnings THEN "WARNING"
    ELSE "HEALTHY"

\* the health status of _create_fallback_analysis
FallbackStatus(error_count, warning_count) ==
    IF error_count > ManyErrors THEN "CRITICAL"
    ELSE IF error_count > 0 \/ warning_count > ManyWarnings THEN "WARNING"
    ELSE "HEALTHY"

\* _calculate_trends: error_groups[0].example_entry.message raises
\* AttributeError when the first group has no example
TrendsRaise(parsed_logs) ==
    /\ parsed_logs.error_groups # <<>>
    /\ parsed_logs.error_groups[1].example_entry = None

\* the AnalysisResult: the path that built it, health_status, error_count,
\* warning_count
AnalysisResult(path, health_status, parsed_logs) ==
    [path |-> path,
     health_status |-> health_status,
     error_count |-> ErrorCount(parsed_logs),
     warning_count |-> WarningCount(parsed_logs)]

\* AIAnalyzer._create_fallback_analysis
CreateFallbackAnalysis(parsed_logs) ==
    IF TrendsRaise(parsed_logs) THEN Outcome(TRUE, None)
    ELSE Outcome(FALSE,
             Some(AnalysisResult("fallback",
                                 FallbackStatus(ErrorCount(parsed_logs), WarningCount(parsed_logs)),
                                 parsed_logs)))

\* the answers of the model service: generate_content raises; the text is no
\* JSON; it is JSON but no object; it is an object whose key_issues are no
\* objects; it is an object, with or without the key health_status
Response(kind, health_status) == [kind |-> kind, health_status |-> health_status]

Responses ==
    {Response("query_raises", None), Response("not_json", None),
     Response("not_object", None), Response("bad_items", Some("WARNING")),
     Response("object", None)}
        \cup {Response("object", Some(status)) : status \in {"HEALTHY", "WARNING", "CRITICAL"}}

\* ai_data.get('health_status', 'WARNING')
StatusGet(response) ==
    IF response.health_status = None THEN "WARNING" ELSE response.health_status[1]

\* AIAnalyzer._process_ai_response: json.JSONDecodeError leads to the
\* fallback, any other exception leaves the method
ProcessAiResponse(response, parsed_logs) ==
    IF response.kind = "not_json" THEN CreateFallbackAnalysis(parsed_logs)
    ELSE IF response.kind \in {"not_object", "bad_items"} THEN Outcome(TRUE, None)
    ELSE IF TrendsRaise(parsed_logs) THEN Outcome(TRUE, None)
    ELSE Outcome(FALSE, Some(AnalysisResult("ai", StatusGet(response), parsed_logs)))

\* except Exception: return self._create_fallback_analysis(...)
OrFallback(tried, parsed_logs) ==
    IF tried.raised THEN CreateFallbackAnalysis(parsed_logs) ELSE tried

\* AIAnalyzer.analyze_logs
AnalyzeLogsResult(parsed_logs, response) ==
    IF response.kind = "query_raises" THEN CreateFallbackAnalysis(parsed_logs)
    ELSE OrFallback(ProcessAiResponse(response, parsed_logs), parsed_logs)

\* the batches the check command parses before the analysis
AnalysisBatches ==
    {Repeat(LineServerError1620, n) \o Repeat(LineSimpleWarning, m) :
        n \in {0, 1, ManyErrors, ManyErrors + 1}, m \in {0, ManyWarnings, ManyWarnings + 1}}
        \cup {<<LineDbFatal>>, <<LineDbFatal, LineSimpleWarning>>, <<LineHealth>>,
              TrendBatch, RankingBatch}

\* parser = LogParser(); parser.parse_logs(log_data): the one call on the
\* parser of the command
ParseForAnalysis ==
    /\ pass = None
    /\ call = "init"
    /\ \E lines \in AnalysisBatches, now \in NowValues : ParseLogsCall(lines, now)
    /\ analysis' = None
    /\ UNCHANGED <<holder, remote, cli>>

\* analyzer.analyze_logs(parsed_logs, app_name)
AnalyzeLogsCall(response) ==
    \E got \in {AnalyzeLogsResult(summary[1], response)} :
        analysis' = Some([response |-> response, raised |-> got.raised, result |-> got.value])

AnalyzeLogs ==
    /\ pass = None
    /\ cli = None
    /\ summary # None
    /\ \E response \in Responses : AnalyzeLogsCall(response)
    /\ UNCHANGED <<parser, holder, remote, cli>>

AnalyzerNext == ParseForAnalysis \/ AnalyzeLogs

AnalyzerSpec == Init /\ [][AnalyzerNext]_vars

(***************************************************************************)
(* RemoteConnection: connect, disconnect, read_log_file, execute_command.  *)
(* The SSH client is an object that is new (made, not connected) or up;    *)
(* how a call on the server ends is an input.                              *)
(***************************************************************************)

\* the commands the model lets run on the server
MaxCommands == 3

\* a call on the RemoteConnection: the method, how it ended (returned, or the
\* ConnectionError it raised) and whether it ran a command on the server
Called(op, result, ran) == [op |-> op, result |-> result, ran |-> ran]

\* where connect() ends: it raises before client.connect (key not found or
\* not loaded, no authentication method), in client.connect, in open_sftp,
\* or it returns
ConnectEnds == {"no_auth", "refused", "no_sftp", "ok"}

\* RemoteConnection.connect
ConnectCall(ends) ==
    /\ client' = Some(IF ends \in {"no_sftp", "ok"} THEN "up" ELSE "new")
    /\ sftp' = IF ends = "ok" THEN Some("open") ELSE sftp
    /\ connected' = IF ends = "ok" THEN TRUE ELSE connected
    /\ latest' = IF ends = "ok" THEN "connect_ok" ELSE "connect_failed"
    /\ outcome' = Called("connect", IF ends = "ok" THEN "returned" ELSE "ConnectionError", FALSE)
    /\ UNCHANGED commands

Connect ==
    /\ cli = None
    /\ \E ends \in ConnectEnds : ConnectCall(ends)
    /\ UNCHANGED <<parser, holder, analysis, cli>>

\* how the close() calls of disconnect() end
Closings == {"ok", "sftp_raises", "client_raises"}

\* RemoteConnection.disconnect: an exception of a close() is swallowed and
\* ends the method
DisconnectCall(closing) ==
    /\ closing = "sftp_raises" => sftp # None
    /\ closing = "client_raises" => client # None
    /\ sftp' = IF closing = "sftp_raises" THEN sftp ELSE None
    /\ client' = IF closing = "ok" THEN None ELSE client
    /\ connected' = IF closing = "ok" THEN FALSE ELSE connected
    /\ latest' = "disconnect"
    /\ outcome' = Called("disconnect", "returned", FALSE)
    /\ UNCHANGED commands

Disconnect ==
    /\ cli = None
    /\ \E closing \in Closings : DisconnectCall(closing)
    /\ UNCHANGED <<parser, holder, analysis, cli>>

\* how a command ends on a client that is up: it returns the lines, the file
\* is not there, or exec_command raises
CommandEnds == {"ok", "file_not_found", "ssh_error"}

\* self.client.exec_command runs the command only on a client that is up
Runs(ends) == client = Some("up") /\ ends # "ssh_error"

\* RemoteConnection.read_log_file
ReadLogFileCall(ends) ==
    /\ outcome' =
           IF ~connected THEN Called("read_log_file", "Not connected to server", FALSE)
           ELSE IF ~Runs(ends) THEN Called("read_log_file", "Failed to read log file", FALSE)
           ELSE IF ends = "file_not_found" THEN Called("read_log_file", "Log file not found", TRUE)
           ELSE Called("read_log_file", "returned", TRUE)
    /\ commands' = IF connected /\ Runs(ends) THEN commands + 1 ELSE commands
    /\ UNCHANGED <<client, sftp, connected, latest>>

ReadLogFile ==
    /\ cli = None
    /\ commands < MaxCommands
    /\ \E ends \in CommandEnds : ReadLogFileCall(ends)
    /\ UNCHANGED <<parser, holder, analysis, cli>>

\* RemoteConnection.execute_command
ExecuteCommandCall(ends) ==
    /\ outcome' =
           IF ~connected THEN Called("execute_command", "Not connected to server", FALSE)
           ELSE IF ~Runs(ends) THEN Called("execute_command", "Command execution failed", FALSE)
           ELSE Called("execute_command", "returned", TRUE)
    /\ commands' = IF connected /\ Runs(ends) THEN commands + 1 ELSE commands
    /\ UNCHANGED <<client, sftp, connected, latest>>

ExecuteCommand ==
    /\ cli = None
    /\ commands < MaxCommands
    /\ \E ends \in CommandEnds : ExecuteCommandCall(ends)
    /\ UNCHANGED <<parser, holder, analysis, cli>>

RemoteNext == Connect \/ Disconnect \/ ReadLogFile \/ ExecuteCommand

RemoteSpec == Init /\ [][RemoteNext]_vars

(***************************************************************************)
(* The check and chat commands in remote mode: a RemoteConnection is made, *)
(* connected, read and disconnected, then the lines are parsed and, by     *)
(* check, analysed.  A ConnectionError or another exception ends the       *)
(* command with sys.exit(1).                                               *)
(***************************************************************************)

Commands == {"check", "chat"}

\* the statement a command has reached, and the lines it has read
Running(command, at, log_data) == [command |-> command, at |-> at, log_data |-> log_data]

\* [line for line in output.split('\n') if line.strip()]
KeepNonBlank(lines) == SelectSeq(lines, LAMBDA line : Strip(line) # <<>>)

\* what tail prints of the log file on the server
RemoteFiles == {<<>>, SampleBatch, RankingBatch, TrendBatch, <<LineOffset>>, <<LineDbFatal>>}

\* fend-sentry check, fend-sentry chat: remote = RemoteConnection(...)
RunCommand ==
    /\ cli = None
    /\ call = "init"
    /\ latest = "none"
    /\ \E command \in Commands : cli' = Some(Running(command, "connect", <<>>))
    /\ UNCHANGED <<parser, holder, analysis, remote>>

\* remote.connect(): a ConnectionError ends the command
CliConnect ==
    /\ cli # None
    /\ cli[1].at = "connect"
    /\ \E ends \in ConnectEnds :
           /\ ConnectCall(ends)
           /\ cli' = Some(Running(cli[1].command, IF ends = "ok" THEN "read" ELSE "exit", <<>>))
    /\ UNCHANGED <<parser, holder, analysis>>

\* log_data = remote.read_log_file(log_path, lines=max_lines): a
\* ConnectionError ends the command
CliRead ==
    /\ cli # None
    /\ cli[1].at = "read"
    /\ \E ends \in CommandEnds, file \in RemoteFiles :
           /\ ReadLogFileCall(ends)
           /\ cli' = IF connected /\ Runs(ends) /\ ends = "ok"
                     THEN Some(Running(cli[1].command, "disconnect", KeepNonBlank(file)))
                     ELSE Some(Running(cli[1].command, "exit", <<>>))
    /\ UNCHANGED <<parser, holder, analysis>>

\* remote.disconnect()
CliDisconnect ==
    /\ cli # None
    /\ cli[1].at = "disconnect"
    /\ \E closing \in Closings : DisconnectCall(closing)
    /\ cli' = Some(Running(cli[1].command, "parse", cli[1].log_data))
    /\ UNCHANGED <<parser, holder, analysis>>

\* parsed_logs = parser.parse_logs(log_data): an exception ends the command
CliParse ==
    /\ cli # None
    /\ cli[1].at = "parse"
    /\ \E now \in NowValues :
           /\ ParseLogsCall(cli[1].log_data, now)
           /\ cli' = Some(Running(cli[1].command,
                                  IF raised' THEN "exit"
                                  ELSE IF cli[1].command = "check" THEN "analyze" ELSE "done",
                                  cli[1].log_data))
    /\ UNCHANGED <<holder, analysis, remote>>

\* analysis = analyzer.analyze_logs(parsed_logs, app_name), then the report
CliAnalyze ==
    /\ cli # None
    /\ cli[1].at = "analyze"
    /\ \E response \in Responses : AnalyzeLogsCall(response)
    /\ cli' = Some(Running(cli[1].command, "done", cli[1].log_data))
    /\ UNCHANGED <<parser, holder, remote>>

CliNext == RunCommand \/ CliConnect \/ CliRead \/ CliDisconnect \/ CliParse \/ CliAnalyze

CliSpec == Init /\ [][CliNext]_vars

(***************************************************************************)
(* The claims of the specification, C1 to C30.                             *)
(***************************************************************************)

\* an entry apart from the position of its header in the batch
Unnumbered(entry) == [entry EXCEPT !.line_number = 0]

UnnumberedAll(es) == [i \in 1..Len(es) |-> Unnumbered(es[i])]

\* the line is the header of an entry
IsHeader(raw) == ParseLogLine(RStrip(raw)) # None

\* the line is empty or holds blanks only
IsBlankRaw(raw) == RStrip(raw) = <<>>

IsNotBlankRaw(raw) == ~IsBlankRaw(raw)

\* the groups as the claims read them: signature and count, in order
SignatureCounts(groups) ==
    [i \in 1..Len(groups) |-> <<groups[i].signature, groups[i].count>>]

\* both entries are members of one group of self.error_groups
InSameGroup(a, b) ==
    \E g \in 1..Len(error_groups) :
        /\ \E m \in 1..Len(error_groups[g].entries) : error_groups[g].entries[m] = a
        /\ \E m \in 1..Len(error_groups[g].entries) : error_groups[g].entries[m] = b

\* ------------------------------------------------------------------ C1

\* C1, as the specification states it: parse_logs on the seven-line sample
\* yields exactly 2 entries, both is_error, both with the same
\* error_signature, and exactly one ErrorGroup whose count is 2.
C1_SampleOneGroup ==
    (call = "parse_logs" /\ log_lines = SampleBatch) =>
        /\ Len(entries) = 2
        /\ \A i \in 1..Len(entries) : is_error(entries[i])
        /\ error_signature(entries[1]) = error_signature(entries[2])
        /\ Len(error_groups) = 1
        /\ error_groups[1].count = 2

\* C1, amended: parse_logs on the seven-line sample yields exactly 2
\* entries, both is_error, with two different signatures (the first entry
\* has the application frame and no exception token in its message, the
\* second has the exception token and no frame), and so two ErrorGroups of
\* count 1 each, in self.error_groups and in the summary returned.
C1_SampleTwoGroups ==
    (call = "parse_logs" /\ log_lines = SampleBatch) =>
        /\ ~raised
        /\ Len(entries) = 2
        /\ \A i \in 1..Len(entries) : is_error(entries[i])
        /\ SearchException(entries[1].message) = None
        /\ FirstAppFrame(entries[1].traceback) # None
        /\ SearchException(entries[2].message) = Some("ConnectionError")
        /\ FirstAppFrame(entries[2].traceback) = None
        /\ error_signature(entries[1]) # error_signature(entries[2])
        /\ SignatureCounts(error_groups) =
              <<<<error_signature(entries[1]), 1>>, <<error_signature(entries[2]), 1>>>>
        /\ summary # None
        /\ SignatureCounts(summary[1].error_groups) = SignatureCounts(error_groups)

\* the sample has been parsed
C1_SampleParsed ==
    /\ call = "parse_logs"
    /\ log_lines = SampleBatch
    /\ Len(entries) = 2
    /\ Len(entries[1].traceback) = 3

\* ------------------------------------------------------------------ C2

\* C2, as the specification states it: whatever timestamp formats the
\* headers carry, parse_logs returns a summary and never raises, and neither
\* does a following get_error_trends call.
C2_NeverRaises ==
    /\ call = "parse_logs" => (~raised /\ summary # None)
    /\ call = "get_error_trends" => (~raised /\ trends # None)

\* ------------------------------------------------------------------ C3

\* the first exception-type token of the lines of a stack block
RECURSIVE FirstExceptionIn(_)
FirstExceptionIn(traceback) ==
    IF traceback = <<>> THEN None
    ELSE IF SearchException(traceback[1]) # None THEN SearchException(traceback[1])
    ELSE FirstExceptionIn(Tail(traceback))

\* the exception-type token of an entry wherever it sits: in the message
\* (header or wrapped line) or else in the stack block
ExceptionAnywhere(entry) ==
    IF SearchException(entry.message) # None THEN SearchException(entry.message)
    ELSE FirstExceptionIn(entry.traceback)

\* C3, as the specification states it: two error entries with the same
\* level, the same logger, the same exception-type token, wherever it sits
\* (header message, wrapped message line or a line taken into the stack
\* block), and the same first application frame have the same
\* error_signature and are in the same ErrorGroup.
C3_SameTokenAnywhereSameGroup ==
    summary # None =>
        \A i, j \in 1..Len(entries) :
            ( /\ is_error(entries[i])
              /\ is_error(entries[j])
              /\ entries[i].level = entries[j].level
              /\ entries[i].logger = entries[j].logger
              /\ ExceptionAnywhere(entries[i]) = ExceptionAnywhere(entries[j])
              /\ FirstAppFrame(entries[i].traceback) = FirstAppFrame(entries[j].traceback) )
            => ( /\ error_signature(entries[i]) = error_signature(entries[j])
                 /\ InSameGroup(entries[i], entries[j]) )

\* C3, amended: two error entries with the same level, the same logger, the
\* same first exception-type token in their message (the header message
\* and the lines wrapped into it; a token on a line taken into the stack
\* block does not count) and the same first application frame have the same
\* error_signature and are in the same ErrorGroup, whatever else their
\* messages hold.
C3_SameMessageTokenSameGroup ==
    summary # None =>
        \A i, j \in 1..Len(entries) :
            ( /\ is_error(entries[i])
              /\ is_error(entries[j])
              /\ entries[i].level = entries[j].level
              /\ entries[i].logger = entries[j].logger
              /\ SearchException(entries[i].message) = SearchException(entries[j].message)
              /\ FirstAppFrame(entries[i].traceback) = FirstAppFrame(entries[j].traceback) )
            => ( /\ error_signature(entries[i]) = error_signature(entries[j])
                 /\ InSameGroup(entries[i], entries[j]) )

\* two error entries with the same token and frame and different message
\* texts, the token wrapped into the message of one and in the header of the
\* other, were grouped together
C3_DifferentTextGrouped ==
    /\ summary # None
    /\ \E i, j \in 1..Len(entries) :
        /\ is_error(entries[i])
        /\ is_error(entries[j])
        /\ entries[i].message # entries[j].message
        /\ SearchException(entries[i].message) # None
        /\ SearchException(entries[i].message) = SearchException(entries[j].message)
        /\ SearchException(SubSeq(entries[i].message, 1, 3)) = None
        /\ SearchException(SubSeq(entries[j].message, 1, 3)) # None
        /\ FirstAppFrame(entries[i].traceback) # None
        /\ FirstAppFrame(entries[i].traceback) = FirstAppFrame(entries[j].traceback)
        /\ InSameGroup(entries[i], entries[j])

\* ------------------------------------------------------------------ C4

\* the position in the input of the first entry with the signature
FirstEncounter(es, signature) ==
    CHOOSE k \in 1..Len(es) :
        /\ is_error(es[k]) /\ error_signature(es[k]) = signature
        /\ \A n \in 1..(k - 1) : ~(is_error(es[n]) /\ error_signature(es[n]) = signature)

\* C4: in every summary returned by parse_logs, error_groups holds the
\* groups of the parser ordered by count descending, and of two groups with
\* equal count the one whose signature was first encountered in the input
\* comes first.
C4_GroupsRanked ==
    summary # None =>
        LET ranked == summary[1].error_groups
        IN  /\ Len(ranked) = Len(error_groups)
            /\ {ranked[i] : i \in 1..Len(ranked)} =
                   {error_groups[i] : i \in 1..Len(error_groups)}
            /\ \A i, j \in 1..Len(ranked) :
                   i < j =>
                       \/ ranked[i].count > ranked[j].count
                       \/ /\ ranked[i].count = ranked[j].count
                          /\ FirstEncounter(summary[1].entries, ranked[i].signature)
                                 < FirstEncounter(summary[1].entries, ranked[j].signature)

\* a summary of three groups where the ranking moved a group forward and
\* two groups have equal count
C4_RankedWithTie ==
    /\ summary # None
    /\ Len(summary[1].error_groups) >= 3
    /\ summary[1].error_groups[1].signature # error_groups[1].signature
    /\ summary[1].error_groups[1].count > summary[1].error_groups[2].count
    /\ summary[1].error_groups[2].count = summary[1].error_groups[3].count

\* ------------------------------------------------------------------ C5

\* the timestamp is later than now - 1h and not later than now
WithinLastHour(entry, now) ==
    /\ entry.timestamp # None
    /\ now.ms - SecondsMs(3600) < entry.timestamp[1].ms
    /\ entry.timestamp[1].ms <= now.ms

\* C5, as the specification states it: in every summary recent_errors and
\* recent_warnings hold at most 10 entries each, and every entry in them has
\* a timestamp t with now - 1h < t <= now, now being the time the summary
\* was built.
C5_RecentWithinLastHour ==
    summary # None =>
        /\ Len(summary[1].recent_errors) <= RecentLimit
        /\ Len(summary[1].recent_warnings) <= RecentLimit
        /\ \A i \in 1..Len(summary[1].recent_errors) :
               WithinLastHour(summary[1].recent_errors[i], summary[1].parsing_timestamp)
        /\ \A i \in 1..Len(summary[1].recent_warnings) :
               WithinLastHour(summary[1].recent_warnings[i], summary[1].parsing_timestamp)

\* ------------------------------------------------------------------ C6

\* what the claim compares of a call: total_entries, level_counts, and the
\* signatures with their counts
Outline(es, groups) ==
    [total_entries |-> Len(es), level_counts |-> LevelCounts(es),
     error_groups |-> SignatureCounts(groups)]

\* C6: a parse_logs call, whatever the parser held from earlier calls,
\* leaves and returns what the same call on a new LogParser does: the
\* same entries, the same total_entries, level_counts and error-group
\* signatures with the same counts.
C6_NoStateLeaks ==
    call = "parse_logs" =>
        \A now \in NowValues :
            LET fresh == RunParseLogs(<<>>, <<>>, log_lines, now)
            IN  /\ raised = fresh.raised
                /\ entries = fresh.entries
                /\ Outline(entries, error_groups) = Outline(fresh.entries, fresh.error_groups)
                /\ (summary # None /\ summary[1].parsing_timestamp = now) =>
                       /\ fresh.summary # None
                       /\ summary[1].total_entries = fresh.summary[1].total_entries
                       /\ summary[1].level_counts = fresh.summary[1].level_counts
                       /\ SignatureCounts(summary[1].error_groups)
                              = SignatureCounts(fresh.summary[1].error_groups)

\* a parse_logs call has returned on a parser that held entries and groups
\* of an earlier call with other lines
C6_ParsedAgain ==
    /\ call = "parse_logs"
    /\ held.entries > 0
    /\ held.groups > 0
    /\ summary # None
    /\ Len(entries) > 0
    /\ Len(entries) # held.entries
    /\ Len(error_groups) # held.groups

\* ------------------------------------------------------------------ C7

\* the batch without its blank lines
WithoutBlanks(lines) == SelectSeq(lines, IsNotBlankRaw)

\* line k is blank and stands between two stack lines of an open entry
BlankBetweenStackLines(lines, k) ==
    /\ 1 < k
    /\ k < Len(lines)
    /\ IsBlankRaw(lines[k])
    /\ ~IsHeader(lines[k - 1])
    /\ ~IsHeader(lines[k + 1])
    /\ IsTracebackLine(RStrip(lines[k - 1]))
    /\ IsTracebackLine(RStrip(lines[k + 1]))
    /\ \E h \in 1..(k - 2) : IsHeader(lines[h])

\* C7: an empty or whitespace-only line neither closes the open entry nor
\* opens one: the entries are, apart from their line numbers, those of the
\* batch without its blank lines, and when the blank line stands between
\* two stack lines of an entry both are consecutive lines of the traceback
\* of one entry.
C7_BlankLineKeepsEntryOpen ==
    call = "parse_logs" =>
        /\ Len(entries) = Len(ParseEntries(<<>>, WithoutBlanks(log_lines)))
        /\ UnnumberedAll(entries) = UnnumberedAll(ParseEntries(<<>>, WithoutBlanks(log_lines)))
        /\ \A k \in 1..Len(log_lines) :
               BlankBetweenStackLines(log_lines, k) =>
                   \E e \in 1..Len(entries) :
                       \E i \in 1..(Len(entries[e].traceback) - 1) :
                           /\ entries[e].traceback[i] = RStrip(log_lines[k - 1])
                           /\ entries[e].traceback[i + 1] = RStrip(log_lines[k + 1])

\* a batch with a whitespace-only line between two stack lines of an entry
\* has been parsed
C7_BlankInsideTraceback ==
    /\ call = "parse_logs"
    /\ \E k \in 1..Len(log_lines) :
        /\ BlankBetweenStackLines(log_lines, k)
        /\ log_lines[k] # <<>>
    /\ \E e \in 1..Len(entries) : Len(entries[e].traceback) >= 2

\* ------------------------------------------------------------------ C8

\* C8, as the specification states it: the single line
\* '[2024-06-30 16:21:20,789] INFO django.request: GET /health/ 200' yields
\* one entry whose level is INFO, whose status_code is 200 and whose
\* url_path is '/health/'.
C8_HealthLineStatus200 ==
    (call = "parse_logs" /\ log_lines = <<LineHealth>>) =>
        /\ Len(entries) = 1
        /\ entries[1].level = "INFO"
        /\ entries[1].status_code = Some(200)
        /\ entries[1].url_path = Some("/health/")

\* C8, amended: that line yields one entry whose level is INFO and whose
\* status_code and url_path are absent: the message has neither the quote
\* before the status nor the quoted 'METHOD path HTTP' the searches ask for.
C8_HealthLineNoMetadata ==
    (call = "parse_logs" /\ log_lines = <<LineHealth>>) =>
        /\ Len(entries) = 1
        /\ entries[1].level = "INFO"
        /\ entries[1].logger = "django.request"
        /\ entries[1].status_code = None
        /\ entries[1].url_path = None

\* the health line has been parsed into an entry
C8_HealthLineParsed ==
    /\ call = "parse_logs"
    /\ log_lines = <<LineHealth>>
    /\ Len(entries) = 1
    /\ entries[1].message = <<"GET", " ", "/health/", " ", "200">>

\* ------------------------------------------------------------------ C9

\* C9, as the specification states it: a line 'timestamp - source - LEVEL -
\* message' yields an entry whose level is the upper-cased LEVEL field and
\* whose logger is the trimmed source field, so that with LEVEL = ERROR the
\* entry is_error.
C9_PythonLineLevel ==
    (call = "parse_logs" /\ log_lines = <<LinePython>>) =>
        /\ Len(entries) = 1
        /\ entries[1].level = "ERROR"
        /\ entries[1].logger = "myapp"
        /\ is_error(entries[1])

\* ------------------------------------------------------------------ C10

\* the position of the first header of the batch (past the end: none)
FirstHeader(lines) ==
    IF \E k \in 1..Len(lines) : IsHeader(lines[k])
    THEN CHOOSE k \in 1..Len(lines) :
             IsHeader(lines[k]) /\ \A n \in 1..(k - 1) : ~IsHeader(lines[n])
    ELSE Len(lines) + 1

\* the batch without the lines that arrive while no entry is open
FromFirstHeader(lines) == SubSeq(lines, FirstHeader(lines), Len(lines))

\* C10: the non-blank lines that match no recognizer and arrive while no
\* entry is open, those before the first header, are discarded: every entry
\* comes from a header, the entries are, apart from their line numbers,
\* those of the batch without these lines, and a batch without a header
\* yields no entry, no group, total_entries = 0 and does not raise.
C10_UnrecognisedLinesDiscarded ==
    call = "parse_logs" =>
        /\ Len(entries) = Cardinality({k \in 1..Len(log_lines) : IsHeader(log_lines[k])})
        /\ UnnumberedAll(entries) = UnnumberedAll(ParseEntries(<<>>, FromFirstHeader(log_lines)))
        /\ FirstHeader(log_lines) > Len(log_lines) =>
               /\ entries = <<>>
               /\ error_groups = <<>>
               /\ ~raised
               /\ summary # None
               /\ summary[1].total_entries = 0
               /\ summary[1].error_groups = <<>>

\* a batch that begins with a non-blank unrecognised line and holds a header
\* later has been parsed
C10_GarbageBeforeHeader ==
    /\ call = "parse_logs"
    /\ Len(log_lines) >= 2
    /\ ~IsBlankRaw(log_lines[1])
    /\ ~IsHeader(log_lines[1])
    /\ FirstHeader(log_lines) <= Len(log_lines)
    /\ Len(entries) >= 1

\* ------------------------------------------------------------------ C11

\* the positions of the members of a group that have a timestamp
Stamped(group) == {m \in 1..Len(group.entries) : group.entries[m].timestamp # None}

\* the timestamps of the members can be compared with each other: all are
\* offset-naive or all are offset-aware, so no add_entry call raised
ComparableGroup(group) ==
    \A m, n \in Stamped(group) :
        Comparable(group.entries[m].timestamp[1], group.entries[n].timestamp[1])

\* the instant of the timestamp of member m
MemberInstant(group, m) == Instant(group.entries[m].timestamp[1])

\* the positions of the members with the greatest timestamp
Latest(group) ==
    {m \in Stamped(group) :
        \A n \in Stamped(group) : MemberInstant(group, n) <= MemberInstant(group, m)}

\* example_entry is the member at position m
ExampleIs(group, m) ==
    group.example_entry # None /\ group.example_entry[1] = group.entries[m]

Earliest(group) ==
    {m \in Stamped(group) :
        \A n \in Stamped(group) : MemberInstant(group, m) <= MemberInstant(group, n)}

\* C12: after any sequence of add_entry calls that returned, first_seen is
\* the minimum and last_seen the maximum of the timestamps of the members
\* that have one, both are absent exactly when no member has a timestamp,
\* and first_seen <= last_seen when both are present.
C12_SeenBounds ==
    \A g \in 1..Len(error_groups) :
        ComparableGroup(error_groups[g]) =>
            /\ error_groups[g].count = Len(error_groups[g].entries)
            /\ (error_groups[g].first_seen = None) <=> (Stamped(error_groups[g]) = {})
            /\ (error_groups[g].last_seen = None) <=> (Stamped(error_groups[g]) = {})
            /\ \A m \in Earliest(error_groups[g]) :
                   error_groups[g].first_seen = error_groups[g].entries[m].timestamp
            /\ \A m \in Latest(error_groups[g]) :
                   error_groups[g].last_seen = error_groups[g].entries[m].timestamp
            /\ (error_groups[g].first_seen # None /\ error_groups[g].last_seen # None) =>
                   Instant(error_groups[g].first_seen[1]) <= Instant(error_groups[g].last_seen[1])

\* a group whose first and last members have no timestamp and whose other
\* members were added with the later timestamp before the earlier one
C12_MixedOrderGroup ==
    \E g \in 1..Len(error_groups) :
        /\ ComparableGroup(error_groups[g])
        /\ error_groups[g].entries[1].timestamp = None
        /\ error_groups[g].entries[Len(error_groups[g].entries)].timestamp = None
        /\ error_groups[g].first_seen # None
        /\ error_groups[g].last_seen # None
        /\ Instant(error_groups[g].first_seen[1]) < Instant(error_groups[g].last_seen[1])
        /\ \E m \in Latest(error_groups[g]), n \in Earliest(error_groups[g]) : m < n

\* ------------------------------------------------------------------ C13

\* the metadata of the entry is what the searches find in its message
MetadataOfMessage(entry) ==
    /\ entry.ip_address = SearchIp(entry.message)
    /\ entry.url_path = SearchUrl(entry.message)
    /\ entry.status_code = SearchStatus(entry.message)
    /\ entry.request_id = SearchRequestId(entry.message)

\* C13, as the specification states it: the metadata of every finalized
\* entry (ip_address, url_path, status_code, request_id) is the result of
\* the extraction rules applied to its final message, the header message
\* with every wrapped line appended, and never to its stack lines.
C13_MetadataOfFinalMessage ==
    call = "parse_logs" => \A i \in 1..Len(entries) : MetadataOfMessage(entries[i])

\* ------------------------------------------------------------------ C14

HasTimestamp(entry) == entry.timestamp # None

\* the number of entries of the level
CountOfLevel(es, level) == Cardinality({n \in 1..Len(es) : es[n].level = level})

\* the number of error entries with the signature
CountOfSignature(es, signature) ==
    Cardinality({n \in 1..Len(es) : is_error(es[n]) /\ error_signature(es[n]) = signature})

\* C14: an entry without a timestamp is never in recent_errors or
\* recent_warnings and adds nothing to the trend buckets, but it is counted
\* in total_entries, in level_counts under its level and, when error-level,
\* in the count of the group of its signature; the values of level_counts
\* sum to total_entries, the length of entries.
C14_UnstampedCountedNotWindowed ==
    /\ summary # None =>
        /\ \A i \in 1..Len(summary[1].recent_errors) :
               HasTimestamp(summary[1].recent_errors[i])
        /\ \A i \in 1..Len(summary[1].recent_warnings) :
               HasTimestamp(summary[1].recent_warnings[i])
        /\ summary[1].total_entries = Len(entries)
        /\ SumValues(summary[1].level_counts, DOMAIN summary[1].level_counts)
               = summary[1].total_entries
        /\ \A k \in 1..Len(entries) :
               ~HasTimestamp(entries[k]) =>
                   /\ entries[k].level \in DOMAIN summary[1].level_counts
                   /\ summary[1].level_counts[entries[k].level]
                          = CountOfLevel(entries, entries[k].level)
                   /\ is_error(entries[k]) =>
                          \E g \in 1..Len(error_groups) :
                              /\ error_groups[g].signature = error_signature(entries[k])
                              /\ \E m \in 1..Len(error_groups[g].entries) :
                                     error_groups[g].entries[m] = entries[k]
                              /\ error_groups[g].count
                                     = CountOfSignature(entries, error_signature(entries[k]))
    /\ (call = "get_error_trends" /\ trends # None) =>
           trends[1] = GetTrends(SelectSeq(entries, HasTimestamp),
                                 asked[1].hours, asked[1].now).value

\* trends were returned for entries of which an error-level one has no
\* timestamp, after a summary with recent errors
C14_UnstampedErrorParsed ==
    /\ summary # None
    /\ call = "get_error_trends"
    /\ trends # None
    /\ summary[1].recent_errors # <<>>
    /\ trends[1].total_errors_period >= 1
    /\ \E k \in 1..Len(entries) : ~HasTimestamp(entries[k]) /\ is_error(entries[k])
    /\ \E k \in 1..Len(entries) : HasTimestamp(entries[k]) /\ is_error(entries[k])

\* ------------------------------------------------------------------ C15

ErrorLevels == {"ERROR", "CRITICAL", "FATAL"}

\* the timestamp is present and not older than now - hours
InPeriod(entry, window) ==
    /\ entry.timestamp # None
    /\ entry.timestamp[1].ms >= window.now.ms - SecondsMs(window.hours * 3600)

\* the positions of the entries of the levels that fall in the period
PeriodEntries(es, levels, window) ==
    {k \in 1..Len(es) : es[k].level \in levels /\ InPeriod(es[k], window)}

\* the hour the timestamp of entry k falls in
HourOfEntry(es, k) == es[k].timestamp[1].ms \div SecondsMs(3600)

\* the buckets hold, hour by hour, the entries at the positions counted,
\* each in the bucket of its hour, and the total is their number
BucketsOf(buckets, total, es, counted) ==
    /\ total = Cardinality(counted)
    /\ DOMAIN buckets = {HourOfEntry(es, k) : k \in counted}
    /\ \A key \in DOMAIN buckets :
           buckets[key] = Cardinality({k \in counted : HourOfEntry(es, k) = key})
    /\ SumValues(buckets, DOMAIN buckets) = total

\* C15: get_error_trends returns total_errors_period equal to the number of
\* error-level entries whose timestamp is present and not older than
\* now - hours, total_warnings_period equal to that number for the warning
\* entries, each total is the sum of its hourly buckets and every counted
\* entry is in the bucket of its hour only.
C15_TrendTotals ==
    (call = "get_error_trends" /\ trends # None) =>
        /\ BucketsOf(trends[1].hourly_errors, trends[1].total_errors_period, entries,
                     PeriodEntries(entries, ErrorLevels, asked[1]))
        /\ BucketsOf(trends[1].hourly_warnings, trends[1].total_warnings_period, entries,
                     PeriodEntries(entries, {"WARNING"}, asked[1]))

\* trends of one hour were returned that count a warning stamped exactly at
\* the cutoff and an error, and leave out an older error and an error
\* without a timestamp
C15_WindowCutsEntries ==
    /\ call = "get_error_trends"
    /\ trends # None
    /\ asked[1].hours = 1
    /\ trends[1].total_errors_period >= 1
    /\ \E k \in PeriodEntries(entries, {"WARNING"}, asked[1]) :
           entries[k].timestamp[1].ms = asked[1].now.ms - SecondsMs(3600)
    /\ \E k \in 1..Len(entries) :
           /\ entries[k].level \in ErrorLevels
           /\ HasTimestamp(entries[k])
           /\ ~InPeriod(entries[k], asked[1])
    /\ \E k \in 1..Len(entries) : entries[k].level \in ErrorLevels /\ ~HasTimestamp(entries[k])

\* ------------------------------------------------------------------ C16

\* what get_error_trends gives for the lines of the latest parse_logs call,
\* the window and the clock reading
TrendsOfLines(lines, window) == GetTrends(ParseEntries(<<>>, lines), window.hours, window.now)

\* C16: a get_error_trends call leaves entries, error_groups (with every
\* group's count, first_seen, last_seen and example_entry) and the summary
\* as they were, and its result is determined by the lines of the latest
\* parse_logs call, the window and the clock reading alone, whatever calls
\* came before.
C16_TrendsLeaveParsedState ==
    /\ [][call' = "get_error_trends" =>
              /\ entries' = entries
              /\ error_groups' = error_groups
              /\ summary' = summary
              /\ log_lines' = log_lines]_vars
    /\ [](call = "get_error_trends" =>
              /\ raised = TrendsOfLines(log_lines, asked[1]).raised
              /\ ~raised => trends = Some(TrendsOfLines(log_lines, asked[1]).value))

\* trends were returned that leave out an error entry the parser holds in
\* a group
C16_TrendsOverGroups ==
    /\ call = "get_error_trends"
    /\ trends # None
    /\ Len(error_groups) >= 2
    /\ trends[1].total_errors_period >= 1
    /\ trends[1].total_errors_period < Cardinality({k \in 1..Len(entries) : is_error(entries[k])})

\* ------------------------------------------------------------------ C20

\* the count level_counts gives for the level (0: the level is no key)
LevelCount(counts, level) == IF level \in DOMAIN counts THEN counts[level] ELSE 0

RECURSIVE SumCounts(_)
SumCounts(groups) ==
    IF groups = <<>> THEN 0 ELSE groups[1].count + SumCounts(Tail(groups))

\* the positions of the entries of level ERROR, CRITICAL or FATAL
ErrorEntries(es) == {k \in 1..Len(es) : es[k].level \in ErrorLevels}

\* C20: after parse_logs has returned, error_groups has exactly one group
\* per signature of the error-level entries, the count of a group is the
\* number of error-level entries with its signature, every member is of
\* level ERROR, CRITICAL or FATAL, the counts sum to level_counts[ERROR] +
\* level_counts[CRITICAL] + level_counts[FATAL], and without an error-level
\* entry error_groups is empty.
C20_GroupsPartitionErrors ==
    summary # None =>
        /\ {error_groups[g].signature : g \in 1..Len(error_groups)}
               = {error_signature(entries[k]) : k \in ErrorEntries(entries)}
        /\ \A g, h \in 1..Len(error_groups) :
               error_groups[g].signature = error_groups[h].signature => g = h
        /\ \A g \in 1..Len(error_groups) :
               /\ error_groups[g].count = Len(error_groups[g].entries)
               /\ error_groups[g].count =
                      Cardinality({k \in ErrorEntries(entries) :
                                      error_signature(entries[k]) = error_groups[g].signature})
               /\ \A m \in 1..Len(error_groups[g].entries) :
                      /\ error_groups[g].entries[m].level \in ErrorLevels
                      /\ is_error(error_groups[g].entries[m])
                      /\ \E k \in ErrorEntries(entries) : entries[k] = error_groups[g].entries[m]
        /\ SumCounts(error_groups) =
               LevelCount(summary[1].level_counts, "ERROR")
                   + LevelCount(summary[1].level_counts, "CRITICAL")
                   + LevelCount(summary[1].level_counts, "FATAL")
        /\ ErrorEntries(entries) = {} => error_groups = <<>>

\* a summary over three groups, one of two members, one of level CRITICAL,
\* and an entry that is no error
C20_SeveralGroups ==
    /\ summary # None
    /\ Len(error_groups) >= 3
    /\ \E g \in 1..Len(error_groups) : error_groups[g].count >= 2
    /\ \E g \in 1..Len(error_groups) : error_groups[g].entries[1].level = "CRITICAL"
    /\ \E k \in 1..Len(entries) : entries[k].level \notin ErrorLevels

\* ------------------------------------------------------------------ C17

\* the positions of the headers among the first n lines
HeadersUpTo(lines, n) == {k \in 1..n : IsHeader(lines[k])}

\* the number of lines the call has read
LinesRead == IF pass # None THEN pass[1].line_num ELSE Len(log_lines)

\* the entry that is open, if any
OpenEntry == IF pass # None THEN pass[1].current_entry ELSE None

\* the entries stored followed by the open one
InHand == entries \o OpenEntry

\* the step reads a header or is the end of the input
ClosesEntry == pass' = None \/ IsHeader(log_lines[pass[1].line_num + 1])

\* C17: at every point of the pass the entries stored and the open one are,
\* in input order, exactly the headers read so far, one entry each; the open
\* entry is appended to entries exactly when the next header is read or the
\* input ends, and entries changes at no other step, so after the call
\* entries holds one entry per header, the last one included.
C17_OneEntryPerHeader ==
    /\ [](call \in {"parsing", "parse_logs"} =>
              /\ Len(InHand) = Cardinality(HeadersUpTo(log_lines, LinesRead))
              /\ \A i \in 1..Len(InHand) :
                     /\ InHand[i].line_number \in HeadersUpTo(log_lines, LinesRead)
                     /\ Cardinality({k \in HeadersUpTo(log_lines, LinesRead) :
                                        k <= InHand[i].line_number}) = i
                     /\ InHand[i].raw_line = RStrip(log_lines[InHand[i].line_number])
              /\ call = "parse_logs" =>
                     Len(entries) = Cardinality(HeadersUpTo(log_lines, Len(log_lines))))
    /\ [][pass # None =>
              entries' = IF ClosesEntry /\ OpenEntry # None
                         THEN Append(entries, OpenEntry[1])
                         ELSE entries]_vars

\* the pass stored an entry at a header and another at the end of the input
C17_LastEntryStored ==
    /\ call = "parse_logs"
    /\ pass = None
    /\ Len(entries) >= 2
    /\ Len(log_lines) > Len(entries)
    /\ entries[Len(entries)].line_number < Len(log_lines)

\* ------------------------------------------------------------------ C18

\* the line the step reads, after rstrip()
LineRead == RStrip(log_lines[pass[1].line_num + 1])

\* C18: a line that is neither blank nor a header, read while an entry is
\* open, goes to the traceback of the entry when in_traceback is set or the
\* line has a stack marker, and in_traceback is set from then on; otherwise
\* it is appended to the message after a single space and in_traceback
\* stays unset; a header unsets it.  So in_traceback is set exactly while
\* the open entry has stack lines.
C18_StackStateSticks ==
    /\ [](pass # None =>
              (pass[1].in_traceback <=>
                  (OpenEntry # None /\ OpenEntry[1].traceback # <<>>)))
    /\ [][(pass # None /\ pass' # None) =>
              /\ (OpenEntry # None /\ LineRead # <<>> /\ ~IsHeader(LineRead)) =>
                     IF pass[1].in_traceback \/ IsTracebackLine(LineRead)
                     THEN /\ pass'[1].in_traceback
                          /\ pass'[1].current_entry =
                                 Some([OpenEntry[1] EXCEPT !.traceback = Append(@, LineRead)])
                     ELSE /\ ~pass'[1].in_traceback
                          /\ pass'[1].current_entry =
                                 Some([OpenEntry[1] EXCEPT
                                          !.message = @ \o <<" ">> \o Strip(LineRead)])
              /\ IsHeader(LineRead) =>
                     /\ ~pass'[1].in_traceback
                     /\ pass'[1].current_entry # None
                     /\ pass'[1].current_entry[1].traceback = <<>>]_vars

\* the open entry took a line into its message, then a stack line, then a
\* line without a stack marker into its traceback
C18_UnmarkedLineInStack ==
    /\ pass # None
    /\ pass[1].in_traceback
    /\ OpenEntry # None
    /\ Len(OpenEntry[1].traceback) >= 2
    /\ ~IsTracebackLine(OpenEntry[1].traceback[Len(OpenEntry[1].traceback)])
    /\ SearchStatus(OpenEntry[1].message) # None
    /\ OpenEntry[1].status_code = None

\* ------------------------------------------------------------------ C19

\* C19: no step of a parse_logs call, reading a line or grouping and
\* summarising at the end of the input, changes an entry that is stored in
\* entries: the entries stored before the step are the same after it, and
\* the summary and the groups hold the entries as they are stored.
C19_StoredEntriesFixed ==
    /\ [][pass # None =>
              /\ Len(entries') >= Len(entries)
              /\ \A i \in 1..Len(entries) : entries'[i] = entries[i]]_vars
    /\ [](call = "parse_logs" =>
              /\ summary # None => summary[1].entries = entries
              /\ \A g \in 1..Len(error_groups) :
                     \A m \in 1..Len(error_groups[g].entries) :
                         \E k \in 1..Len(entries) : entries[k] = error_groups[g].entries[m])

\* an entry is stored and the open entry after it has taken a wrapped line
\* and a stack line, with lines still to read
C19_OpenEntryGrowing ==
    /\ pass # None
    /\ entries # <<>>
    /\ OpenEntry # None
    /\ OpenEntry[1].traceback # <<>>
    /\ SearchException(OpenEntry[1].message) # None
    /\ pass[1].line_num < Len(log_lines)

\* ------------------------------------------------------------------ C21

\* C21: in every group, whether or not a later add_entry raised, a member
\* without a timestamp is the example only if it is the first member and no
\* member has a timestamp; the first member is the example when no member
\* has a timestamp; so the example lacks a timestamp only if every member
\* lacks one.
C21_UnstampedExampleOnlyFirst ==
    \A g \in 1..Len(error_groups) :
        /\ error_groups[g].example_entry # None
        /\ \A m \in 1..Len(error_groups[g].entries) :
               (error_groups[g].entries[m].timestamp = None /\ ExampleIs(error_groups[g], m)) =>
                   (m = 1 /\ Stamped(error_groups[g]) = {})
        /\ Stamped(error_groups[g]) = {} => ExampleIs(error_groups[g], 1)
        /\ error_groups[g].example_entry[1].timestamp = None => Stamped(error_groups[g]) = {}

\* a group whose first member has no timestamp, whose second has one and is
\* the example, and whose last member has no timestamp again
C21_UnstampedAfterStamped ==
    \E g \in 1..Len(error_groups) :
        /\ Len(error_groups[g].entries) >= 3
        /\ error_groups[g].entries[1].timestamp = None
        /\ error_groups[g].entries[2].timestamp # None
        /\ error_groups[g].entries[Len(error_groups[g].entries)].timestamp = None
        /\ error_groups[g].example_entry # None
        /\ error_groups[g].example_entry[1].timestamp # None

\* ------------------------------------------------------------------ C22

\* [line.strip() for line in lines], the trimming of the caller (src/cli.py)
StripAll(lines) == [k \in 1..Len(lines) |-> Strip(lines[k])]

\* the severity of an entry and its continuation lines, as split between
\* message and traceback, leading and trailing blanks aside
Shape(entry) ==
    [level |-> entry.level, message |-> Strip(entry.message),
     traceback |-> StripAll(entry.traceback)]

ShapeOf(es) == [k \in 1..Len(es) |-> Shape(es[k])]

\* C22, as the specification states it: parsing a batch after stripping
\* leading and trailing whitespace from every line yields the same number
\* of entries, the same severities and the same split of continuation lines
\* between message and traceback as parsing the batch as it is.
C22_TrimmingTolerated ==
    call = "parse_logs" =>
        ShapeOf(entries) = ShapeOf(ParseEntries(<<>>, StripAll(log_lines)))

\* ------------------------------------------------------------------ C23

\* the position of the first header after line h among the first n lines
\* (n + 1 if there is none)
RECURSIVE NextHeader(_, _, _)
NextHeader(lines, h, n) ==
    IF h >= n THEN n + 1
    ELSE IF IsHeader(lines[h + 1]) THEN h + 1
    ELSE NextHeader(lines, h + 1, n)

\* the lines h+1..last that are not blank, each after rstrip(), in input order
RECURSIVE NonBlankFrom(_, _, _)
NonBlankFrom(lines, h, last) ==
    IF h >= last THEN <<>>
    ELSE IF IsBlankRaw(lines[h + 1]) THEN NonBlankFrom(lines, h + 1, last)
    ELSE <<RStrip(lines[h + 1])>> \o NonBlankFrom(lines, h + 1, last)

\* the continuation lines of the header at line h, of the first n lines
Continuation(lines, h, n) == NonBlankFrom(lines, h, NextHeader(lines, h, n) - 1)

\* a message with the lines wrapped into it, one space before each
RECURSIVE Wrapped(_, _)
Wrapped(message, ls) ==
    IF ls = <<>> THEN message
    ELSE Wrapped(message \o <<" ">> \o Strip(ls[1]), Tail(ls))

\* the message of the header at line h
HeaderMessage(lines, h) == ParseLogLine(RStrip(lines[h]))[1].message

\* C23: at every point of the pass and after it, each entry holds exactly
\* the non-blank lines between its header and the next header (or the last
\* line read): the first j of them wrapped into the message in input
\* order, the others in the traceback in input order, for some j; so each
\* line is in the message or in the traceback of that entry, not in both,
\* and none is dropped.
C23_ContinuationsAttachedOnce ==
    call \in {"parsing", "parse_logs"} =>
        \A i \in 1..Len(InHand) :
            \E j \in 0..Len(Continuation(log_lines, InHand[i].line_number, LinesRead)) :
                /\ InHand[i].message =
                       Wrapped(HeaderMessage(log_lines, InHand[i].line_number),
                               SubSeq(Continuation(log_lines, InHand[i].line_number, LinesRead),
                                      1, j))
                /\ InHand[i].traceback =
                       SubSeq(Continuation(log_lines, InHand[i].line_number, LinesRead),
                              j + 1,
                              Len(Continuation(log_lines, InHand[i].line_number, LinesRead)))

\* a stored entry with a continuation line in its message and another in
\* its traceback, and an entry opened after it
C23_SplitContinuations ==
    /\ pass # None
    /\ OpenEntry # None
    /\ \E i \in 1..Len(entries) :
           /\ Len(Continuation(log_lines, entries[i].line_number, LinesRead)) >= 2
           /\ entries[i].traceback # <<>>
           /\ entries[i].message # HeaderMessage(log_lines, entries[i].line_number)

\* ------------------------------------------------------------------ C30

\* C30: after parse_logs, line_number is strictly increasing along entries,
\* and the line_number of each entry is the position, counted from 1 over
\* all lines of the batch, of the header that opened it: the line there is
\* a header and, after rstrip(), the raw_line of the entry.
C30_LineNumbersArePositions ==
    call = "parse_logs" =>
        /\ \A i \in 1..Len(entries) :
               /\ entries[i].line_number \in 1..Len(log_lines)
               /\ IsHeader(log_lines[entries[i].line_number])
               /\ RStrip(log_lines[entries[i].line_number]) = entries[i].raw_line
        /\ \A i, j \in 1..Len(entries) :
               i < j => entries[i].line_number < entries[j].line_number

\* two entries, with a blank line and a line of another entry before the
\* header of the last
C30_HeaderAfterOtherLines ==
    /\ call = "parse_logs"
    /\ Len(entries) >= 2
    /\ entries[Len(entries)].line_number > Len(entries) + 1
    /\ \E k \in 1..entries[Len(entries)].line_number : IsBlankRaw(log_lines[k])

\* ------------------------------------------------------------------ C24

\* the earlier summary as its holder reads it in this state
EarlierNow == ReadNow(earlier[1].returned, earlier[1].refers, heap, entries, error_groups)

\* C24: a summary that parse_logs returned reads, after every later
\* parse_logs call on the same parser, as it read when it was returned: its
\* entries, its error_groups, and the counts, examples and members of its
\* groups.
C24_EarlierSummaryKept ==
    earlier # None =>
        /\ EarlierNow.entries = earlier[1].returned.entries
        /\ EarlierNow.error_groups = earlier[1].returned.error_groups
        /\ \A g \in 1..Len(earlier[1].returned.error_groups) :
               /\ EarlierNow.error_groups[g].count = earlier[1].returned.error_groups[g].count
               /\ EarlierNow.error_groups[g].example_entry =
                      earlier[1].returned.error_groups[g].example_entry

\* a summary with entries and a group is kept, and the latest call parsed a
\* batch with an entry of the signature of that group
C24_SameSignatureParsedAgain ==
    /\ earlier # None
    /\ call = "parse_logs"
    /\ earlier[1].returned.entries # <<>>
    /\ entries # <<>>
    /\ entries # earlier[1].returned.entries
    /\ \E g \in 1..Len(earlier[1].returned.error_groups) :
           /\ GroupIndex(error_groups, earlier[1].returned.error_groups[g].signature) # 0
           /\ GroupNow(earlier[1].returned.error_groups[g], error_groups)
                  # earlier[1].returned.error_groups[g]

\* ------------------------------------------------------------------ C25

\* C25, as stated: the error_count of the AnalysisResult, on the AI path and
\* on the fallback path, is the number of is_error entries of the summary,
\* which is the sum of the counts of its error_groups; so a fallback status
\* HEALTHY is reported only for a summary without an error-level entry.
C25_ErrorCountIsErrorEntries ==
    (analysis # None /\ ~analysis[1].raised) =>
        /\ analysis[1].result[1].error_count = Cardinality(ErrorEntries(summary[1].entries))
        /\ analysis[1].result[1].error_count = SumCounts(summary[1].error_groups)
        /\ (analysis[1].result[1].path = "fallback"
                /\ analysis[1].result[1].health_status = "HEALTHY") =>
               ErrorEntries(summary[1].entries) = {}

\* ------------------------------------------------------------------ C29

\* the health status the fallback reports for the counts
StatusForCounts(error_count, warning_count) ==
    CASE error_count > 10 -> "CRITICAL"
      [] error_count <= 10 /\ (error_count > 0 \/ warning_count > 5) -> "WARNING"
      [] OTHER -> "HEALTHY"

\* the result is the fallback AnalysisResult of the summary
IsFallbackResult(result, parsed_logs) ==
    /\ result.path = "fallback"
    /\ result.error_count =
           LevelCount(parsed_logs.level_counts, "ERROR")
               + LevelCount(parsed_logs.level_counts, "CRITICAL")
    /\ result.warning_count = LevelCount(parsed_logs.level_counts, "WARNING")
    /\ result.health_status = StatusForCounts(result.error_count, result.warning_count)

\* C29, as stated: analyze_logs never raises for a summary of parse_logs,
\* and when the query fails, the response is no valid JSON, or it is JSON of
\* an unexpected shape (here also: an object without the key
\* health_status), it returns the fallback AnalysisResult, whose
\* health_status is CRITICAL if error_count > 10, WARNING if error_count > 0
\* or warning_count > 5, and HEALTHY otherwise.
C29_FallbackForEveryOddResponse ==
    analysis # None =>
        /\ ~analysis[1].raised
        /\ (analysis[1].response.kind # "object" \/ analysis[1].response.health_status = None) =>
               IsFallbackResult(analysis[1].result[1], summary[1])

\* C29, amended: analyze_logs never raises for a summary of parse_logs; it
\* returns the fallback AnalysisResult, with the health_status given by the
\* thresholds, when the query fails, the response is no valid JSON, it is
\* JSON that is no object, or an object whose key_issues are no objects; a
\* JSON object is taken on the AI path, its health_status passed on, and
\* WARNING put in when the object has none.
C29_FallbackWhenUnreadable ==
    analysis # None =>
        /\ ~analysis[1].raised
        /\ IF analysis[1].response.kind # "object"
           THEN IsFallbackResult(analysis[1].result[1], summary[1])
           ELSE /\ analysis[1].result[1].path = "ai"
                /\ analysis[1].result[1].health_status =
                       IF analysis[1].response.health_status = None THEN "WARNING"
                       ELSE analysis[1].response.health_status[1]

\* a response whose items cannot be read, for a summary of six warnings and
\* no error: the fallback reports WARNING
C29_WarningsOnlyFallback ==
    /\ analysis # None
    /\ analysis[1].response.kind = "bad_items"
    /\ analysis[1].result[1].path = "fallback"
    /\ analysis[1].result[1].error_count = 0
    /\ analysis[1].result[1].warning_count = 6
    /\ analysis[1].result[1].health_status = "WARNING"

\* ------------------------------------------------------------------ C26

\* C26, as stated: after any sequence of connect() and disconnect() calls
\* connected is true only if the latest of them is a connect() that
\* succeeded; a connect() that fails leaves connected false, also when an
\* earlier connect() had succeeded.
C26_ConnectedOnlyAfterGoodConnect ==
    /\ connected => latest = "connect_ok"
    /\ latest = "connect_failed" => ~connected

\* ------------------------------------------------------------------ C27

\* C27, as stated: after disconnect() has returned, also when a close()
\* raised in it, connected is false and sftp and client are cleared, and a
\* read_log_file or execute_command call after it raises
\* ConnectionError('Not connected to server') without running a command on
\* the server.
C27_DisconnectClearsAll ==
    latest = "disconnect" =>
        /\ ~connected
        /\ sftp = None
        /\ client = None
        /\ outcome.op \in {"read_log_file", "execute_command"} =>
               (outcome.result = "Not connected to server" /\ ~outcome.ran)

\* ------------------------------------------------------------------ C28

\* C28, as stated: when a check or chat command in remote mode has ended,
\* by its last statement or by sys.exit(1), the RemoteConnection whose
\* connect() succeeded has been disconnected: disconnect() ran after the
\* connect(), on the path where read_log_file returned and on the path
\* where it raised.
C28_DisconnectedWhenCommandEnds ==
    (cli # None /\ cli[1].at \in {"done", "exit"}) => latest # "connect_ok"

====
